---- MODULE Spec2Model ----
(***************************************************************************)
(* Model of the event scheduler of calendar-notifier                       *)
(* (pkg/scheduler/scheduler.go, internal/models/event.go).                 *)
(*                                                                         *)
(* Time is counted in minutes since the scheduler was constructed.  The    *)
(* three workers (poll, ingest, dispatch) are goroutines; each one has a   *)
(* program counter.  Everything a handler does while it holds s.mu is one  *)
(* step; taking the lock is a step of its own, so a worker can sit between *)
(* a channel receive and the lock.                                         *)
(***************************************************************************)
EXTENDS Integers, Sequences, FiniteSets, Bags, TLC

\* ---------------------------------------------------------------- bounds
ClockStep == 10         \* minutes the clock advances in one step
Horizon == 30           \* the clock steps by ClockStep up to here ...
MaxDays == 1            \* ... and then jumps by a whole day this often
TimerBufferSize == 1    \* capacity of eventChan and of timerChan
MaxBatch == 3           \* most events in a slice passed to CoordinateEvents
MaxPolls == 2           \* calls of GetAllEvents the history keeps per Start()

\* ------------------------------------------------------ program constants
Day == 1440             \* 24 * time.Hour, in minutes
PollInterval == 5       \* DefaultConfig: 5 * time.Minute
NoFinalReminder == -1   \* FinalReminderMinutes == nil
DeduplicationWindow == 5 \* DefaultCoordinatorConfig: 5 * time.Minute

Nil == [nil |-> TRUE]

\* ------------------------------------------------------------ data model
Alarm(lead, method, severity) ==
  [LeadTimeMinutes |-> lead, Method |-> method, Severity |-> severity]

Event(id, title, start, end, alarms, status) ==
  [ID |-> id, Title |-> title, StartTime |-> start, EndTime |-> end,
   Alarms |-> alarms, ResponseStatus |-> status]

\* ------------------------------------------------------- models/event.go
IsUpcoming_AtOrAfter(e, t) == e.StartTime >= t

IsUpcoming(e, t) == e.StartTime > t

IsAccepted_ExplicitOnly(e) == e.ResponseStatus = "accepted"

IsAccepted(e) ==
  IF e.ResponseStatus = "" THEN TRUE ELSE e.ResponseStatus = "accepted"

NewNotification(e, alarm, ptr) ==
  [ptr |-> ptr,
   Title |-> e.Title,
   When |-> e.StartTime,
   Lead |-> alarm.LeadTimeMinutes,
   Severity |-> IF alarm.Severity = "" THEN "normal" ELSE alarm.Severity]

DefaultConfig ==
  [DefaultLeadTimes |-> <<15, 5>>, FinalReminderMinutes |-> NoFinalReminder]

\* other configurations a scheduler is constructed with
FinalReminderConfig ==
  [DefaultLeadTimes |-> <<15>>, FinalReminderMinutes |-> 5]

SingleLeadConfig ==
  [DefaultLeadTimes |-> <<15>>, FinalReminderMinutes |-> NoFinalReminder]

\* no default lead times and no final reminder
NativeOnlyConfig ==
  [DefaultLeadTimes |-> <<>>, FinalReminderMinutes |-> NoFinalReminder]

\* the events of the calendars
Standup == Event("e1", "Standup", 30, 35, <<>>, "")
StandupDeclined == Event("e1", "Standup", 30, 35, <<>>, "declined")
\* the same event moved to a later time
StandupMoved == Event("e1", "Standup", 40, 45, <<>>, "")
Review ==
  Event("e2", "Review", 20, 25,
        <<Alarm(10, "popup", "high"), Alarm(10, "email", "")>>, "accepted")
Sync ==
  Event("e2", "Sync", 20, 25, <<Alarm(10, "popup", "normal")>>, "accepted")
SyncDeclined == Event("e2", "Sync", 20, 25, <<>>, "declined")
\* the same event moved, renamed and without its alarm
SyncMoved == Event("e2", "Sync (moved)", 30, 35, <<>>, "accepted")

Catalog ==
  {Standup, StandupDeclined, StandupMoved, Review, Sync, SyncDeclined, SyncMoved}

EventIDs == {e.ID : e \in Catalog}

\* a run's inputs: the configuration the scheduler is constructed with and
\* the events the calendar manager can return from GetAllEvents
Scenarios ==
  { [config |-> DefaultConfig, calendar |-> {Standup, StandupDeclined}],
    [config |-> FinalReminderConfig, calendar |-> {Standup}],
    [config |-> DefaultConfig, calendar |-> {Review}],
    [config |-> SingleLeadConfig, calendar |-> {Standup, Sync}],
    [config |-> NativeOnlyConfig, calendar |-> {Sync, SyncMoved}],
    [config |-> SingleLeadConfig, calendar |-> {Standup, StandupMoved}] }

\* the batches GetAllEvents can return: one event, or one event of each ID
Batches(cal) ==
  {<<e>> : e \in cal}
    \cup {<<a, b>> : a \in {e \in cal : e.ID = "e1"},
                     b \in {e \in cal : e.ID = "e2"}}

VARIABLES
  now,              \* time.Now(), minutes
  config,           \* s.config
  calendar,         \* the events the calendar manager can return
  running,          \* s.running
  cancelled,        \* s.ctx is done (s.cancel was called)
  shutdownClosed,   \* s.shutdownChan is closed
  panicked,         \* the process died of a runtime panic
  mu,               \* s.mu: "free", or "Stop" while Stop() holds it in wg.Wait
  wg,               \* s.wg counter
  scheduledEvents,  \* s.scheduledEvents: event ID -> ScheduledEvent
  upcomingTimers,   \* s.upcomingTimers: the timer handles Stop() stops
  timers,           \* the runtime's armed timers (time.AfterFunc not yet run)
  eventChan,        \* s.eventChan
  timerChan,        \* s.timerChan
  pollPc,           \* pollEvents goroutine: "none", "initial", "offer", "select"
  pollBatch,        \* the fetched events performEventPoll has yet to offer
  tickerC,          \* ticker.C holds a tick
  nextTick,         \* time of the ticker's next tick
  ingestPc,         \* processEvents goroutine: "none", "select", "lock"
  ingestEvent,      \* the event it received from eventChan
  dispatchPc,       \* processTimers goroutine: "none", "select", "lock"
  dispatchEvt,      \* the TimerEvent it published
  published,        \* history: bag of the notifications the Publisher accepted
  snapshots,        \* history: event ID -> the (StartTime, Alarms) ever tracked
  polls,            \* history: what led to each call of GetAllEvents since
                    \* the last Start(), the first two of them
  declined,         \* history: the IDs of the events last ingested with a
                    \* non-accepted status while timers of theirs were armed
  snapshot,         \* the map a caller got from GetScheduledEvents(): what it
                    \* held when returned, and what is seen through it now
  lastOp,           \* history: the operation that made the last step, its
                    \* outcome and its input
  coordinatorConfig, \* c.config of an EventCoordinator
  callerEvents,     \* the slice a caller passes to CoordinateEvents, as it is now
  passed,           \* history: that slice as it was when passed
  coordinated,      \* what CoordinateEvents returned: the events, and whether
                    \* the slice is the caller's own
  compared,         \* two events and what areEventsSimilar and areTitlesSimilar
                    \* returned for them, in either order
  retryConfig,      \* r.config of a Retryer
  withResult,       \* the call is DoWithResult rather than Do
  ctxErr,           \* ctx.Err() of the context passed to the call
  retryPc,          \* the call: "none", "loop", "sleep", "returned"
  attempt,          \* the loop variable of the call
  lastErr,          \* lastErr of the call
  outcomes,         \* history: what the operation returned, call by call
  sleeps,           \* history: number of backoff sleeps begun
  retryReturned,    \* what the call returned
  calculated,       \* the last call of calculateDelay: its argument and result
  breakerConfig,    \* cb.config of a CircuitBreaker
  state,            \* cb.state
  failures,         \* cb.failures
  successes,        \* cb.successes
  lastFailure,      \* cb.lastFailure
  clock,            \* time.Now() as the breaker reads it
  executed          \* history: what each Execute did and returned

vars == <<now, config, calendar, running, cancelled, shutdownClosed, panicked, mu, wg,
          scheduledEvents, upcomingTimers, timers, eventChan, timerChan,
          pollPc, pollBatch, tickerC, nextTick, ingestPc, ingestEvent,
          dispatchPc, dispatchEvt, published, snapshots, polls, declined,
          snapshot, lastOp,
          coordinatorConfig, callerEvents, passed, coordinated, compared,
          retryConfig, withResult, ctxErr, retryPc, attempt, lastErr,
          outcomes, sleeps, retryReturned, calculated,
          breakerConfig, state, failures, successes, lastFailure, clock,
          executed>>

\* the scheduler's live state that handlers mutate under the lock
tracked == <<scheduledEvents, timers>>
workers == <<pollPc, pollBatch, tickerC, nextTick, ingestPc, ingestEvent,
             dispatchPc, dispatchEvt, wg>>
lifecycle == <<running, cancelled, shutdownClosed, panicked, mu>>
history == <<published, snapshots, polls, declined>>
\* the state of an event coordinator and its caller
coordinator == <<coordinatorConfig, callerEvents, passed, coordinated,
                 compared>>
\* the state of a Retryer and of a call of Do or DoWithResult
retryer == <<retryConfig, withResult, ctxErr, retryPc, attempt, lastErr,
             outcomes, sleeps, retryReturned, calculated>>
\* the state of a CircuitBreaker, its clock and the history of its calls
breaker == <<breakerConfig, state, failures, successes, lastFailure, clock,
             executed>>
\* what no step of the scheduler changes, but for the objects it shares with
\* a snapshot
outside == <<config, calendar, snapshot, coordinator, retryer, breaker>>

\* no coordinator is in use
NoCoordinator ==
  /\ coordinatorConfig = Nil
  /\ callerEvents = <<>>
  /\ passed = <<>>
  /\ coordinated = Nil
  /\ compared = Nil

\* no Retryer is in use
NoRetryer ==
  /\ retryConfig = Nil
  /\ withResult = FALSE
  /\ ctxErr = Nil
  /\ retryPc = "none"
  /\ attempt = 0
  /\ lastErr = Nil
  /\ outcomes = <<>>
  /\ sleeps = 0
  /\ retryReturned = Nil
  /\ calculated = Nil

\* no CircuitBreaker is in use
NoBreaker ==
  /\ breakerConfig = Nil
  /\ state = "closed"
  /\ failures = 0
  /\ successes = 0
  /\ lastFailure = Nil
  /\ clock = 0
  /\ executed = <<>>

\* lines 91-115: the scheduler as constructed
NewEventScheduler ==
  /\ now = 0
  /\ running = FALSE
  /\ cancelled = FALSE
  /\ shutdownClosed = FALSE
  /\ panicked = FALSE
  /\ mu = "free"
  /\ wg = 0
  /\ scheduledEvents = <<>>
  /\ upcomingTimers = {}
  /\ timers = {}
  /\ eventChan = <<>>
  /\ timerChan = <<>>
  /\ pollPc = "none"
  /\ pollBatch = <<>>
  /\ tickerC = FALSE
  /\ nextTick = 0
  /\ ingestPc = "none"
  /\ ingestEvent = Nil
  /\ dispatchPc = "none"
  /\ dispatchEvt = Nil
  /\ published = EmptyBag
  /\ snapshots = [id \in EventIDs |-> {}]
  /\ polls = <<>>
  /\ declined = {}
  /\ snapshot = Nil
  /\ lastOp = [op |-> "NewEventScheduler", arg |-> "", event |-> Nil]

Init ==
  /\ NewEventScheduler
  /\ \E sc \in Scenarios : config = sc.config /\ calendar = sc.calendar
  /\ NoCoordinator
  /\ NoRetryer
  /\ NoBreaker

\* ------------------------------------------- scheduleEventNotifications
\* lines 288-295
DefaultAlarms(cfg) ==
  [i \in 1..Len(cfg.DefaultLeadTimes) |->
     Alarm(cfg.DefaultLeadTimes[i], "popup", "normal")]

ChooseAlarms_AlwaysDefaults(e, cfg) == e.Alarms \o DefaultAlarms(cfg)

\* lines 285-296: the event's own alarms, or the configured defaults
ChooseAlarms(e, cfg) ==
  IF Len(e.Alarms) = 0 /\ Len(cfg.DefaultLeadTimes) > 0
  THEN DefaultAlarms(cfg)
  ELSE e.Alarms

\* lines 285-320: plus the final reminder when no alarm has its lead time
ResolveAlarms(e, cfg) ==
  LET alarms == ChooseAlarms(e, cfg)
      finalMinutes == cfg.FinalReminderMinutes
      hasFinalReminder ==
        \E i \in 1..Len(alarms) : alarms[i].LeadTimeMinutes = finalMinutes
  IN IF finalMinutes # NoFinalReminder /\ ~hasFinalReminder
     THEN Append(alarms, Alarm(finalMinutes, "popup", "normal"))
     ELSE alarms

\* line 339
TriggerTime(e, alarm) == e.StartTime - alarm.LeadTimeMinutes

TriggerPassed_StrictlyBefore(triggerTime, t) == triggerTime < t

\* line 342
TriggerPassed(triggerTime, t) == triggerTime < t \/ triggerTime = t

\* a fresh heap object: the least identity no live object has
Fresh(used) ==
  CHOOSE n \in 1..(Cardinality(used) + 1) :
    n \notin used /\ \A m \in 1..(n - 1) : m \in used

\* lines 337-387: one PendingNotification and one timer per alarm whose
\* trigger time is after t; i is the Go index of alarms[1]
RECURSIVE ArmAlarms(_, _, _, _, _, _)
ArmAlarms(e, alarms, i, t, used, acc) ==
  IF alarms = <<>> THEN acc
  ELSE
    LET alarm == Head(alarms)
        triggerTime == TriggerTime(e, alarm)
        ptr == Fresh(used)
        notification == NewNotification(e, alarm, ptr)
        timer == [id |-> ptr, EventID |-> e.ID, NotificationID |-> <<e.ID, i>>,
                  Notification |-> notification, deadline |-> triggerTime]
        pending == [Notification |-> notification, TriggerTime |-> triggerTime,
                    Timer |-> ptr, Sent |-> FALSE]
    IN IF TriggerPassed(triggerTime, t)
       THEN ArmAlarms(e, Tail(alarms), i + 1, t, used, acc)
       ELSE ArmAlarms(e, Tail(alarms), i + 1, t, used \cup {ptr},
                      [Notifications |-> Append(acc.Notifications, pending),
                       timers |-> acc.timers \cup {timer}])

TimerIDs(notifications) ==
  {notifications[i].Timer : i \in 1..Len(notifications)}

\* timer.Stop() on each handle
StopTimers(tm, ids) == {x \in tm : x.id \notin ids}

NotificationPtrs(se) ==
  UNION {{se[id].Notifications[i].Notification.ptr :
            i \in 1..Len(se[id].Notifications)} : id \in DOMAIN se}

\* the map s.scheduledEvents with key id set to rec
Put(se, id, rec) ==
  [k \in DOMAIN se \cup {id} |-> IF k = id THEN rec ELSE se[k]]

ScheduleEventNotifications_ClearsOnEmpty(se, tm, e, t, cfg, live) ==
  IF ~IsUpcoming(e, t) THEN [scheduledEvents |-> se, timers |-> tm]
  ELSE IF ~IsAccepted(e) THEN [scheduledEvents |-> se, timers |-> tm]
  ELSE
    LET old == IF e.ID \in DOMAIN se THEN se[e.ID].Notifications ELSE <<>>
        alarms == ResolveAlarms(e, cfg)
        kept == [Event |-> e, Notifications |-> old, LastUpdated |-> t]
        stopped == StopTimers(tm, TimerIDs(old))
        others == [k \in DOMAIN se \ {e.ID} |-> se[k]]
        used == live \cup NotificationPtrs(others) \cup {x.id : x \in stopped}
        armed == ArmAlarms(e, alarms, 0, t, used,
                           [Notifications |-> <<>>, timers |-> {}])
    IN [scheduledEvents |->
          Put(se, e.ID, [kept EXCEPT !.Notifications = armed.Notifications]),
        timers |-> stopped \cup armed.timers]

\* lines 248-388, the body run under s.mu at time t; live is the set of
\* object identities referenced from outside s.scheduledEvents
ScheduleEventNotifications(se, tm, e, t, cfg, live) ==
  IF ~IsUpcoming(e, t) THEN [scheduledEvents |-> se, timers |-> tm]
  ELSE IF ~IsAccepted(e) THEN [scheduledEvents |-> se, timers |-> tm]
  ELSE
    LET old == IF e.ID \in DOMAIN se THEN se[e.ID].Notifications ELSE <<>>
        alarms == ResolveAlarms(e, cfg)
        kept == [Event |-> e, Notifications |-> old, LastUpdated |-> t]
        stopped == StopTimers(tm, TimerIDs(old))
        others == [k \in DOMAIN se \ {e.ID} |-> se[k]]
        used == live \cup NotificationPtrs(others) \cup {x.id : x \in stopped}
        armed == ArmAlarms(e, alarms, 0, t, used,
                           [Notifications |-> <<>>, timers |-> {}])
    IN IF Len(alarms) = 0
       THEN [scheduledEvents |-> Put(se, e.ID, kept), timers |-> tm]
       ELSE [scheduledEvents |->
               Put(se, e.ID, [kept EXCEPT !.Notifications = armed.Notifications]),
             timers |-> stopped \cup armed.timers]

\* ------------------------------------------------------------ helpers
Done == cancelled \/ shutdownClosed     \* <-s.ctx.Done() or <-s.shutdownChan is ready

Op(name, arg) == [op |-> name, arg |-> arg, event |-> Nil]

\* object identities referenced by fire-events in flight and by the map a
\* caller holds
LiveRefs ==
  {timerChan[i].Notification.ptr : i \in 1..Len(timerChan)}
    \cup (IF dispatchEvt = Nil THEN {} ELSE {dispatchEvt.Notification.ptr})
    \cup (IF snapshot = Nil THEN {} ELSE NotificationPtrs(snapshot.seen))

\* ----------------------------------------------------------- Start, Stop
Start_NoRunningCheck ==
  /\ ~panicked
  /\ mu = "free"
  /\ running' = TRUE
  /\ wg' = wg + 3
  /\ pollPc' = "initial"
  /\ ingestPc' = "select"
  /\ dispatchPc' = "select"
  /\ polls' = <<>>
  /\ lastOp' = [op |-> "Start", arg |-> IF running THEN "error" ELSE "nil",
                event |-> Nil]
  /\ UNCHANGED <<now, outside, cancelled, shutdownClosed, panicked,
                 mu, scheduledEvents, timers, upcomingTimers, eventChan,
                 timerChan, pollBatch, tickerC, nextTick, ingestEvent,
                 dispatchEvt, published, snapshots, declined>>

\* lines 118-144
Start ==
  /\ ~panicked
  /\ mu = "free"
  /\ IF running
     THEN /\ lastOp' = Op("Start", "error")
          /\ UNCHANGED <<running, wg, pollPc, ingestPc, dispatchPc, polls>>
     ELSE /\ running' = TRUE
          /\ wg' = wg + 3
          /\ pollPc' = "initial"
          /\ ingestPc' = "select"
          /\ dispatchPc' = "select"
          /\ polls' = <<>>
          /\ lastOp' = Op("Start", "nil")
  /\ UNCHANGED <<now, outside, cancelled, shutdownClosed, panicked, mu,
                 tracked, upcomingTimers, eventChan, timerChan, pollBatch,
                 tickerC, nextTick, ingestEvent, dispatchEvt, published,
                 snapshots, declined>>

\* lines 147-170: Stop() up to wg.Wait(), which it enters holding s.mu;
\* closing the already closed shutdownChan panics
Stop ==
  /\ ~panicked
  /\ mu = "free"
  /\ IF ~running
     THEN UNCHANGED <<running, cancelled, shutdownClosed, panicked, mu,
                      timers, lastOp>>
     ELSE IF shutdownClosed
     THEN /\ running' = FALSE
          /\ cancelled' = TRUE
          /\ panicked' = TRUE
          /\ lastOp' = Op("Stop", "panic")
          /\ UNCHANGED <<shutdownClosed, mu, timers>>
     ELSE /\ running' = FALSE
          /\ cancelled' = TRUE
          /\ shutdownClosed' = TRUE
          /\ timers' = StopTimers(timers, upcomingTimers)
          /\ mu' = "Stop"
          /\ lastOp' = Op("Stop", "wait")
          /\ UNCHANGED panicked
  /\ UNCHANGED <<now, outside, scheduledEvents, upcomingTimers, eventChan,
                 timerChan, workers, history>>

\* lines 170-174: wg.Wait() returns, the deferred Unlock runs
StopReturn ==
  /\ ~panicked
  /\ mu = "Stop"
  /\ wg = 0
  /\ mu' = "free"
  /\ lastOp' = Op("Stop", "returned")
  /\ UNCHANGED <<now, outside, running, cancelled, shutdownClosed, panicked,
                 tracked, upcomingTimers, eventChan, timerChan, workers,
                 history>>

\* ---------------------------------------------------------- poll worker
\* what GetAllEvents can return: a batch of events, with or without an error
PollResults == [err : BOOLEAN, events : Batches(calendar)]

Offer_StopWhenFull(ch, batch, done) ==
  (IF Len(ch) < TimerBufferSize
   THEN {[ch |-> Append(ch, Head(batch)), rest |-> Tail(batch), arg |-> "sent"]}
   ELSE {[ch |-> ch, rest |-> <<>>, arg |-> "dropped"]})
  \cup (IF done THEN {[ch |-> ch, rest |-> <<>>, arg |-> "return"]} ELSE {})

\* lines 218-227: the select on the head of the batch: the outcomes it can
\* have, each with the channel's contents and the events left to offer
Offer(ch, batch, done) ==
  (IF Len(ch) < TimerBufferSize
   THEN {[ch |-> Append(ch, Head(batch)), rest |-> Tail(batch), arg |-> "sent"]}
   ELSE {})
  \cup (IF done THEN {[ch |-> ch, rest |-> <<>>, arg |-> "return"]} ELSE {})
  \cup (IF Len(ch) >= TimerBufferSize /\ ~done
        THEN {[ch |-> ch, rest |-> Tail(batch), arg |-> "dropped"]}
        ELSE {})

\* the poll loop continues with the events left, or is over
PollLoop(rest) == IF rest = <<>> THEN "select" ELSE "offer"

PerformEventPoll_IgnoreError(result) ==
  \E r \in Offer(eventChan, result.events, Done) :
    /\ eventChan' = r.ch
    /\ pollBatch' = r.rest
    /\ pollPc' = PollLoop(r.rest)
    /\ lastOp' = [op |-> "performEventPoll",
                  arg |-> IF result.err THEN "error" ELSE r.arg,
                  event |-> [fetched |-> result.events]]

\* lines 199-228: the fetch, which an error ends, and the first pass of the
\* loop over the fetched events
PerformEventPoll(result) ==
  IF result.err
  THEN /\ eventChan' = eventChan
       /\ pollBatch' = <<>>
       /\ pollPc' = "select"
       /\ lastOp' = Op("performEventPoll", "error")
  ELSE \E r \in Offer(eventChan, result.events, Done) :
         /\ eventChan' = r.ch
         /\ pollBatch' = r.rest
         /\ pollPc' = PollLoop(r.rest)
         /\ lastOp' = [op |-> "performEventPoll", arg |-> r.arg,
                       event |-> [fetched |-> result.events]]

\* the history of polls with one more call of GetAllEvents
Polled(calls, cause) ==
  IF Len(calls) < MaxPolls THEN Append(calls, cause) ELSE calls

\* a poll worker that enters its loop without the initial poll
PollInitial_NoPoll ==
  /\ ~panicked
  /\ pollPc = "initial"
  /\ pollPc' = "select"
  /\ tickerC' = FALSE
  /\ nextTick' = now + PollInterval
  /\ lastOp' = Op("pollEvents", "loop")
  /\ UNCHANGED <<now, outside, lifecycle, wg, tracked, upcomingTimers,
                 eventChan, timerChan, pollBatch, ingestPc, ingestEvent,
                 dispatchPc, dispatchEvt, history>>

\* lines 177-184: the ticker is created, then the initial poll
PollInitial ==
  /\ ~panicked
  /\ pollPc = "initial"
  /\ \E result \in PollResults : PerformEventPoll(result)
  /\ polls' = Polled(polls, "initial")
  /\ tickerC' = FALSE
  /\ nextTick' = now + PollInterval
  /\ UNCHANGED <<now, outside, lifecycle, wg, tracked, upcomingTimers,
                 timerChan, ingestPc, ingestEvent, dispatchPc, dispatchEvt,
                 published, snapshots, declined>>

\* lines 192-193
PollTick ==
  /\ ~panicked
  /\ pollPc = "select"
  /\ tickerC
  /\ \E result \in PollResults : PerformEventPoll(result)
  /\ polls' = Polled(polls, "tick")
  /\ tickerC' = FALSE
  /\ UNCHANGED <<now, outside, lifecycle, wg, tracked, upcomingTimers,
                 timerChan, nextTick, ingestPc, ingestEvent, dispatchPc,
                 dispatchEvt, published, snapshots, declined>>

\* lines 217-228: a further pass of the loop over the fetched events
PollOffer ==
  /\ ~panicked
  /\ pollPc = "offer"
  /\ \E r \in Offer(eventChan, pollBatch, Done) :
       /\ eventChan' = r.ch
       /\ pollBatch' = r.rest
       /\ pollPc' = PollLoop(r.rest)
       /\ lastOp' = Op("offer", r.arg)
  /\ UNCHANGED <<now, outside, lifecycle, wg, tracked, upcomingTimers,
                 timerChan, tickerC, nextTick, ingestPc, ingestEvent,
                 dispatchPc, dispatchEvt, history>>

\* lines 188-191, 178, 181
PollExit ==
  /\ ~panicked
  /\ pollPc = "select"
  /\ Done
  /\ pollPc' = "none"
  /\ tickerC' = FALSE
  /\ nextTick' = 0
  /\ wg' = wg - 1
  /\ lastOp' = Op("pollEvents", "exit")
  /\ UNCHANGED <<now, outside, lifecycle, tracked, upcomingTimers, eventChan,
                 timerChan, pollBatch, ingestPc, ingestEvent, dispatchPc,
                 dispatchEvt, history>>

\* -------------------------------------------------------- ingest worker
\* lines 241-242, 249: the event is received, the lock is not yet taken
IngestReceive ==
  /\ ~panicked
  /\ ingestPc = "select"
  /\ eventChan # <<>>
  /\ ingestEvent' = Head(eventChan)
  /\ eventChan' = Tail(eventChan)
  /\ ingestPc' = "lock"
  /\ lastOp' = Op("processEvents", "receive")
  /\ UNCHANGED <<now, outside, lifecycle, wg, tracked, upcomingTimers,
                 timerChan, pollPc, pollBatch, tickerC, nextTick, dispatchPc,
                 dispatchEvt, history>>

\* lines 249-388
IngestSchedule ==
  /\ ~panicked
  /\ ingestPc = "lock"
  /\ mu = "free"
  /\ LET r == ScheduleEventNotifications(scheduledEvents, timers, ingestEvent,
                                         now, config, LiveRefs)
     IN /\ scheduledEvents' = r.scheduledEvents
        /\ timers' = r.timers
  /\ snapshots' =
       IF IsUpcoming(ingestEvent, now) /\ IsAccepted(ingestEvent)
       THEN [snapshots EXCEPT ![ingestEvent.ID] =
               @ \cup {<<ingestEvent.StartTime, ingestEvent.Alarms>>}]
       ELSE snapshots
  /\ declined' =
       IF IsAccepted(ingestEvent) THEN declined \ {ingestEvent.ID}
       ELSE IF \E x \in timers : x.EventID = ingestEvent.ID
       THEN declined \cup {ingestEvent.ID}
       ELSE declined
  /\ ingestPc' = "select"
  /\ ingestEvent' = Nil
  /\ lastOp' = [op |-> "scheduleEventNotifications", arg |-> "",
                event |-> ingestEvent]
  /\ UNCHANGED <<now, outside, lifecycle, wg, upcomingTimers, eventChan,
                 timerChan, pollPc, pollBatch, tickerC, nextTick, dispatchPc,
                 dispatchEvt, published, polls>>

\* lines 237-240, 233
IngestExit ==
  /\ ~panicked
  /\ ingestPc = "select"
  /\ Done
  /\ ingestPc' = "none"
  /\ wg' = wg - 1
  /\ lastOp' = Op("processEvents", "exit")
  /\ UNCHANGED <<now, outside, lifecycle, tracked, upcomingTimers, eventChan,
                 timerChan, pollPc, pollBatch, tickerC, nextTick, ingestEvent,
                 dispatchPc, dispatchEvt, history>>

\* ------------------------------------------------------ dispatch worker
\* what the history records of an accepted notification
Delivery(evt) ==
  [EventID |-> evt.EventID, NotificationID |-> evt.NotificationID,
   Lead |-> evt.Notification.Lead, When |-> evt.Notification.When]

\* a worker that marks the notification whatever the Publisher returned
DispatchPublish_AckOnError ==
  /\ ~panicked
  /\ dispatchPc = "select"
  /\ timerChan # <<>>
  /\ timerChan' = Tail(timerChan)
  /\ \E err \in BOOLEAN :
       IF err
       THEN /\ lastOp' = Op("handleTimerEvent", "error")
            /\ dispatchEvt' = Head(timerChan)
            /\ dispatchPc' = "lock"
            /\ UNCHANGED published
       ELSE /\ published' = published (+) SetToBag({Delivery(Head(timerChan))})
            /\ dispatchEvt' = Head(timerChan)
            /\ dispatchPc' = "lock"
            /\ lastOp' = Op("handleTimerEvent", "published")
  /\ UNCHANGED <<now, outside, lifecycle, wg, tracked, upcomingTimers,
                 eventChan, pollPc, pollBatch, tickerC, nextTick, ingestPc, ingestEvent,
                 snapshots, polls, declined>>

\* lines 400-421: a fire-event is received and handed to the Publisher,
\* which accepts it or returns an error
DispatchPublish ==
  /\ ~panicked
  /\ dispatchPc = "select"
  /\ timerChan # <<>>
  /\ timerChan' = Tail(timerChan)
  /\ \E err \in BOOLEAN :
       IF err
       THEN /\ lastOp' = Op("handleTimerEvent", "error")
            /\ UNCHANGED <<dispatchPc, dispatchEvt, published>>
       ELSE /\ published' = published (+) SetToBag({Delivery(Head(timerChan))})
            /\ dispatchEvt' = Head(timerChan)
            /\ dispatchPc' = "lock"
            /\ lastOp' = Op("handleTimerEvent", "published")
  /\ UNCHANGED <<now, outside, lifecycle, wg, tracked, upcomingTimers,
                 eventChan, pollPc, pollBatch, tickerC, nextTick, ingestPc, ingestEvent,
                 snapshots, polls, declined>>

\* lines 426-431: Sent is set on the first pending notification that holds
\* the very Notification object the fire-event carries
MarkSent(notifications, ptr) ==
  LET hits == {i \in 1..Len(notifications) :
                 notifications[i].Notification.ptr = ptr}
  IN IF hits = {} THEN notifications
     ELSE LET first == CHOOSE i \in hits : \A j \in hits : i <= j
          IN [notifications EXCEPT ![first].Sent = TRUE]

\* the PendingNotification objects are shared by every map that points to
\* them: the write to pending.Sent in the scheduler's map shows in se too
MarkShared(se, marked, ptr) ==
  IF marked
  THEN [id \in DOMAIN se |->
          [se[id] EXCEPT !.Notifications =
             [i \in 1..Len(@) |->
                IF @[i].Notification.ptr = ptr
                THEN [@[i] EXCEPT !.Sent = TRUE] ELSE @[i]]]]
  ELSE se

\* lines 423-433
DispatchAck ==
  /\ ~panicked
  /\ dispatchPc = "lock"
  /\ mu = "free"
  /\ scheduledEvents' =
       IF dispatchEvt.EventID \in DOMAIN scheduledEvents
       THEN [scheduledEvents EXCEPT ![dispatchEvt.EventID].Notifications =
               MarkSent(@, dispatchEvt.Notification.ptr)]
       ELSE scheduledEvents
  /\ snapshot' =
       IF snapshot = Nil THEN Nil
       ELSE [snapshot EXCEPT !.seen =
               MarkShared(@, scheduledEvents' # scheduledEvents,
                          dispatchEvt.Notification.ptr)]
  /\ dispatchPc' = "select"
  /\ dispatchEvt' = Nil
  /\ lastOp' = Op("handleTimerEvent", "acked")
  /\ UNCHANGED <<now, config, calendar, coordinator, retryer, breaker, lifecycle, wg, timers,
                 upcomingTimers, eventChan, timerChan, pollPc, pollBatch,
                 tickerC, nextTick, ingestPc, ingestEvent, history>>

\* lines 396-399, 392
DispatchExit ==
  /\ ~panicked
  /\ dispatchPc = "select"
  /\ Done
  /\ dispatchPc' = "none"
  /\ wg' = wg - 1
  /\ lastOp' = Op("processTimers", "exit")
  /\ UNCHANGED <<now, outside, lifecycle, tracked, upcomingTimers, eventChan,
                 timerChan, pollPc, pollBatch, tickerC, nextTick, ingestPc, ingestEvent,
                 dispatchEvt, history>>

\* --------------------------------------------------------------- timers
\* lines 361-369: the select of a timer function: the outcomes it can have
TimerSend(ch, timerEvent, done) ==
  (IF Len(ch) < TimerBufferSize
   THEN {[ch |-> Append(ch, timerEvent), arg |-> "sent"]}
   ELSE {})
  \cup (IF done \/ Len(ch) >= TimerBufferSize
        THEN {[ch |-> ch, arg |-> "dropped"]}
        ELSE {})

\* lines 354-370: an armed timer whose deadline has come runs its function
TimerFire ==
  /\ ~panicked
  /\ \E t \in timers :
       /\ t.deadline <= now
       /\ timers' = timers \ {t}
       /\ LET timerEvent == [EventID |-> t.EventID,
                             NotificationID |-> t.NotificationID,
                             Notification |-> t.Notification]
          IN \E r \in TimerSend(timerChan, timerEvent, Done) :
               /\ timerChan' = r.ch
               /\ lastOp' = Op("timer", r.arg)
  /\ UNCHANGED <<now, outside, lifecycle, scheduledEvents, upcomingTimers,
                 eventChan, workers, history>>

\* time passes: by one clock step up to the horizon, then by whole days;
\* the ticker of a running poll loop leaves a tick in ticker.C when its
\* period has passed
AdvanceTime ==
  /\ ~panicked
  /\ IF now + ClockStep <= Horizon
     THEN now' = now + ClockStep
     ELSE /\ now + Day <= Horizon + MaxDays * Day
          /\ now' = now + Day
  /\ IF pollPc \in {"select", "offer"} /\ now' >= nextTick
     THEN /\ tickerC' = TRUE
          /\ nextTick' =
               nextTick + PollInterval * (((now' - nextTick) \div PollInterval) + 1)
     ELSE UNCHANGED <<tickerC, nextTick>>
  /\ lastOp' = Op("clock", "advance")
  /\ UNCHANGED <<outside, lifecycle, wg, tracked, upcomingTimers, eventChan,
                 timerChan, pollPc, pollBatch, ingestPc, ingestEvent,
                 dispatchPc, dispatchEvt, history>>

\* -------------------------------------------------------------- cleanup
ToDelete_SinceNow(se, t) ==
  {id \in DOMAIN se : se[id].Event.EndTime < t}

\* lines 499-515: the events that ended more than 24 hours before t
ToDelete(se, t) ==
  LET cutoff == t - Day
  IN {id \in DOMAIN se : se[id].Event.EndTime < cutoff}

\* lines 495-525
CleanupOldEvents ==
  /\ ~panicked
  /\ mu = "free"
  /\ LET toDelete == ToDelete(scheduledEvents, now)
         handles == UNION {TimerIDs(scheduledEvents[id].Notifications) :
                             id \in toDelete}
     IN /\ timers' = StopTimers(timers, handles)
        /\ scheduledEvents' =
             [id \in DOMAIN scheduledEvents \ toDelete |-> scheduledEvents[id]]
  /\ lastOp' = IF scheduledEvents' = scheduledEvents THEN lastOp
               ELSE Op("CleanupOldEvents", "removed")
  /\ UNCHANGED <<now, outside, lifecycle, upcomingTimers, eventChan, timerChan,
                 workers, history>>

\* ------------------------------------------------------- observers
\* lines 442-459
GetScheduledEvents == scheduledEvents

\* lines 442-459: a caller gets the map and keeps it; the map and its
\* ScheduledEvent values are new, the PendingNotification objects are the
\* scheduler's own
CallGetScheduledEvents ==
  /\ ~panicked
  /\ mu = "free"
  /\ snapshot = Nil
  /\ snapshot' = [returned |-> GetScheduledEvents, seen |-> GetScheduledEvents]
  /\ lastOp' = Op("GetScheduledEvents", "returned")
  /\ UNCHANGED <<now, config, calendar, coordinator, retryer, breaker, lifecycle, tracked,
                 upcomingTimers, eventChan, timerChan, workers, history>>

\* lines 462-484
GetStats ==
  LET all == {<<id, i>> \in EventIDs \X (1..8) :
                id \in DOMAIN scheduledEvents
                /\ i <= Len(scheduledEvents[id].Notifications)}
  IN [TotalEvents |-> Cardinality(DOMAIN scheduledEvents),
      PendingNotifications |->
        Cardinality({p \in all : ~scheduledEvents[p[1]].Notifications[p[2]].Sent}),
      SentNotifications |->
        Cardinality({p \in all : scheduledEvents[p[1]].Notifications[p[2]].Sent}),
      IsRunning |-> running]

Next ==
  \/ Start
  \/ Stop
  \/ StopReturn
  \/ PollInitial
  \/ PollTick
  \/ PollOffer
  \/ PollExit
  \/ IngestReceive
  \/ IngestSchedule
  \/ IngestExit
  \/ DispatchPublish
  \/ DispatchAck
  \/ DispatchExit
  \/ TimerFire
  \/ AdvanceTime
  \/ CleanupOldEvents

Spec == Init /\ [][Next]_vars

\* ------------------------------------------------------------------ C1
\* number of notifications the Publisher accepted for an event and lead time
PublishCount(id, lead) ==
  LET hits == {d \in DOMAIN published : d.EventID = id /\ d.Lead = lead}
  IN BagCardinality([d \in hits |-> published[d]])

Leads == {5, 10, 15}

\* C1: for an event whose StartTime and alarms were the same every time it
\* was tracked, the Publisher has accepted at most one notification per
\* (event ID, lead time) pair.
C1_AtMostOncePerLead ==
  \A id \in EventIDs :
    Cardinality(snapshots[id]) <= 1 =>
      \A lead \in Leads : PublishCount(id, lead) <= 1

\* ------------------------------------------------------------------ C2
\* C2 as stated: GetScheduledEvents() never holds an event whose StartTime
\* is less than or equal to the current time.
C2_NoStartedEventTracked ==
  \A id \in DOMAIN GetScheduledEvents :
    GetScheduledEvents[id].Event.StartTime > now

\* C2 as amended: every event in GetScheduledEvents() had its StartTime
\* strictly after the time it was last (re)scheduled; it stays tracked after
\* its start.
C2_StartAfterLastUpdated ==
  \A id \in DOMAIN GetScheduledEvents :
    /\ GetScheduledEvents[id].Event.StartTime > GetScheduledEvents[id].LastUpdated
    /\ GetScheduledEvents[id].LastUpdated <= now

C2_Witness ==
  \E id \in DOMAIN GetScheduledEvents :
    GetScheduledEvents[id].Event.StartTime <= now

\* ------------------------------------------------------------------ C3
\* the ingest step tracks its event: the event is upcoming and accepted
IngestTracks ==
  /\ ingestEvent.StartTime > now
  /\ ingestEvent.ResponseStatus \in {"", "accepted"}

\* C3: when an event is (re)scheduled, an alarm whose TriggerTime is at or
\* before now gets no PendingNotification and no timer, the event stays
\* tracked, and every PendingNotification and timer of the event has its
\* TriggerTime strictly after the time of arming.
C3_PastAlarmsNeverArmed ==
  [][IngestSchedule /\ IngestTracks /\ ResolveAlarms(ingestEvent, config) # <<>> =>
       LET e == ingestEvent
           alarms == ResolveAlarms(e, config)
           future == {i \in 1..Len(alarms) :
                        e.StartTime - alarms[i].LeadTimeMinutes > now}
       IN /\ e.ID \in DOMAIN scheduledEvents'
          /\ scheduledEvents'[e.ID].Event = e
          /\ Len(scheduledEvents'[e.ID].Notifications) = Cardinality(future)
          /\ \A i \in 1..Len(scheduledEvents'[e.ID].Notifications) :
               scheduledEvents'[e.ID].Notifications[i].TriggerTime > now
          /\ \A t \in timers' : t.EventID = e.ID => t.deadline > now
    ]_vars

\* an event was rescheduled with some alarm already past: it is tracked
\* with fewer notifications than alarms
C3_Witness ==
  /\ lastOp.op = "scheduleEventNotifications"
  /\ lastOp.event.ID \in DOMAIN scheduledEvents
  /\ scheduledEvents[lastOp.event.ID].LastUpdated = now
  /\ Len(scheduledEvents[lastOp.event.ID].Notifications)
       < Len(ResolveAlarms(lastOp.event, config))

\* ------------------------------------------------------------------ C4
\* C4: ingest of an event whose ResponseStatus is non-empty and not
\* "accepted" changes no tracked event and no timer; an upcoming event with
\* empty ResponseStatus is tracked with the notifications and timers the
\* same event with status "accepted" would get.
C4_OnlyAcceptedTracked ==
  [][IngestSchedule =>
       LET e == ingestEvent
           asAccepted ==
             ScheduleEventNotifications(scheduledEvents, timers,
               [e EXCEPT !.ResponseStatus = "accepted"], now, config, LiveRefs)
       IN /\ e.ResponseStatus \notin {"", "accepted"} =>
               /\ scheduledEvents' = scheduledEvents
               /\ timers' = timers
          /\ e.ResponseStatus = "" /\ e.StartTime > now =>
               /\ e.ID \in DOMAIN scheduledEvents'
               /\ scheduledEvents'[e.ID].Event = e
               /\ scheduledEvents'[e.ID].Notifications =
                    asAccepted.scheduledEvents[e.ID].Notifications
               /\ timers' = asAccepted.timers
    ]_vars

\* a declined event was ingested and its ID is not tracked
C4_Witness ==
  /\ lastOp.op = "scheduleEventNotifications"
  /\ lastOp.event.ResponseStatus = "declined"
  /\ lastOp.event.StartTime > now
  /\ lastOp.event.ID \notin DOMAIN scheduledEvents

\* ------------------------------------------------------------------ C5
NativeLeads(e) == [i \in 1..Len(e.Alarms) |-> e.Alarms[i].LeadTimeMinutes]

Leads15And5(ns, start) ==
  /\ Len(ns) = 2
  /\ ns[1].Notification.Lead = 15 /\ ns[1].TriggerTime = start - 15
  /\ ns[2].Notification.Lead = 5 /\ ns[2].TriggerTime = start - 5

\* C5 as stated: with DefaultLeadTimes = [15, 5] an event 30 minutes out
\* with no native alarms gets exactly the notifications 15 and 5; an event
\* with native alarms gets one PendingNotification per native alarm.
C5_OnePerNativeAlarm ==
  [][IngestSchedule /\ IngestTracks =>
       LET e == ingestEvent
           ns == scheduledEvents'[e.ID].Notifications
       IN /\ ( /\ config.DefaultLeadTimes = <<15, 5>>
               /\ config.FinalReminderMinutes = NoFinalReminder
               /\ e.Alarms = <<>>
               /\ e.StartTime - now = 30 ) => Leads15And5(ns, e.StartTime)
          /\ e.Alarms # <<>> =>
               /\ Len(ns) = Len(e.Alarms)
               /\ \A i \in 1..Len(ns) :
                    ns[i].Notification.Lead = e.Alarms[i].LeadTimeMinutes
    ]_vars

\* C5 as amended: the lead times are the native ones, or else the defaults
\* in configuration order, then the final reminder when configured and no
\* alarm has its lead time; the event gets one PendingNotification, in that
\* order, for each of those whose TriggerTime is still in the future.
C5_OnePerFutureAlarm ==
  [][IngestSchedule /\ IngestTracks =>
       LET e == ingestEvent
           ns == scheduledEvents'[e.ID].Notifications
           base == IF e.Alarms # <<>> THEN NativeLeads(e)
                   ELSE config.DefaultLeadTimes
           final == config.FinalReminderMinutes
           leads == IF final # NoFinalReminder
                       /\ \A i \in 1..Len(base) : base[i] # final
                    THEN base \o <<final>> ELSE base
           InFuture(lead) == e.StartTime - lead > now
           due == SelectSeq(leads, InFuture)
       IN /\ ( /\ config.DefaultLeadTimes = <<15, 5>>
               /\ config.FinalReminderMinutes = NoFinalReminder
               /\ e.Alarms = <<>>
               /\ e.StartTime - now = 30 ) => Leads15And5(ns, e.StartTime)
          /\ leads # <<>> =>
               /\ Len(ns) = Len(due)
               /\ \A i \in 1..Len(ns) :
                    /\ ns[i].Notification.Lead = due[i]
                    /\ ns[i].TriggerTime = e.StartTime - due[i]
                    /\ ~ns[i].Sent
    ]_vars

\* the event 30 minutes out was ingested under DefaultLeadTimes = [15, 5]
C5_Witness ==
  /\ lastOp.op = "scheduleEventNotifications"
  /\ lastOp.event = Standup
  /\ config = DefaultConfig
  /\ "e1" \in DOMAIN scheduledEvents
  /\ scheduledEvents["e1"].LastUpdated = 0
  /\ now = 0
  /\ Leads15And5(scheduledEvents["e1"].Notifications, 30)

\* ------------------------------------------------------------------ C6
TimersOf(se, ids) == UNION {TimerIDs(se[id].Notifications) : id \in ids}

\* C6: CleanupOldEvents removes exactly the tracked events whose EndTime is
\* more than a day before now, leaves no timer of theirs armed, and leaves
\* every other tracked event and every other armed timer as it was.
C6_CleanupExact ==
  [][CleanupOldEvents =>
       LET old == {id \in DOMAIN scheduledEvents :
                     scheduledEvents[id].Event.EndTime + Day < now}
       IN /\ DOMAIN scheduledEvents' = DOMAIN scheduledEvents \ old
          /\ \A id \in DOMAIN scheduledEvents' :
               scheduledEvents'[id] = scheduledEvents[id]
          /\ timers' = {t \in timers : t.id \notin TimersOf(scheduledEvents, old)}
    ]_vars

\* cleanup removed the event that ended over a day ago and kept the other
C6_Witness ==
  /\ lastOp.op = "CleanupOldEvents"
  /\ "e1" \in DOMAIN scheduledEvents
  /\ "e2" \notin DOMAIN scheduledEvents
  /\ snapshots["e2"] # {}

\* ------------------------------------------------------------------ C7
\* the goroutines and the timers of the runtime are scheduled fairly; the
\* calls from outside (Start, Stop, CleanupOldEvents) need not happen
Fairness ==
  /\ WF_vars(StopReturn)
  /\ WF_vars(PollInitial) /\ WF_vars(PollTick) /\ WF_vars(PollOffer)
  /\ WF_vars(PollExit)
  /\ WF_vars(IngestReceive) /\ WF_vars(IngestSchedule) /\ WF_vars(IngestExit)
  /\ WF_vars(DispatchPublish) /\ WF_vars(DispatchAck) /\ WF_vars(DispatchExit)
  /\ WF_vars(TimerFire)

\* a scheduler whose calendar holds an event and a declined one
InitTwoEvents ==
  /\ NewEventScheduler
  /\ config = SingleLeadConfig
  /\ calendar = {Standup, SyncDeclined}
  /\ NoCoordinator
  /\ NoRetryer
  /\ NoBreaker

FairSpec == InitTwoEvents /\ [][Next]_vars /\ Fairness

\* C7: a Stop() that has stopped a running scheduler and waits for the
\* workers eventually returns.
C7_StopReturns == (mu = "Stop") ~> (mu = "free")

\* ------------------------------------------------------------------ C8
ArmedHandles == {t.id : t \in timers}

\* C8: when Stop() returns, no timer of a PendingNotification of a tracked
\* event is armed.
C8_StopLeavesNoTimerArmed ==
  lastOp.op = "Stop" /\ lastOp.arg = "returned" =>
    \A id \in DOMAIN scheduledEvents :
      TimerIDs(scheduledEvents[id].Notifications) \cap ArmedHandles = {}

\* ------------------------------------------------------------------ C9
\* C9: Start() on a running scheduler returns an error and changes nothing,
\* spawning no worker; Start() on a stopped scheduler returns nil and sets
\* the running flag, which only Stop() clears.
C9_StartOnlyOnce ==
  [][ /\ Start =>
           IF running
           THEN /\ lastOp'.arg = "error"
                /\ UNCHANGED <<running, wg, pollPc, pollBatch, ingestPc,
                               dispatchPc, scheduledEvents, timers, eventChan, timerChan,
                               cancelled, shutdownClosed, tickerC, nextTick>>
           ELSE /\ lastOp'.arg = "nil"
                /\ GetStats'.IsRunning
      /\ GetStats.IsRunning /\ ~GetStats'.IsRunning => Stop
    ]_vars

\* Start() was called on the running scheduler with its workers alive
C9_Witness ==
  /\ lastOp.op = "Start" /\ lastOp.arg = "error"
  /\ running
  /\ wg = 3

\* ----------------------------------------------------------------- C10
\* C10: a poll whose GetAllEvents fails offers nothing to the ingest queue
\* and changes no tracked event and no timer; no worker exits and the poll
\* worker is back in its loop with the ticker running.
C10_FailedPollSkipsCycle ==
  [][(PollInitial \/ PollTick) /\ lastOp'.arg = "error" =>
       /\ UNCHANGED <<scheduledEvents, timers, eventChan, timerChan,
                      ingestPc, dispatchPc, wg, running>>
       /\ pollPc' = "select"
       /\ pollBatch' = <<>>
       /\ nextTick' > now'
    ]_vars

\* a tick-driven poll failed while an event was tracked
C10_Witness ==
  /\ lastOp.op = "performEventPoll" /\ lastOp.arg = "error"
  /\ pollPc = "select"
  /\ running
  /\ now > 0
  /\ scheduledEvents # <<>>

\* ----------------------------------------------------------------- C11
\* an armed timer whose deadline has come
DueTimers == {t \in timers : t.deadline <= now}

\* C11: neither queue ever holds more than TimerBufferSize items, and no
\* send blocks: the select of the poll loop and the select of a timer
\* function always have an outcome.  An event or notification offered to a
\* full queue is not enqueued; the poll worker then goes on with the rest
\* of the batch (unless the scheduler is shutting down, when it may return),
\* and the timer function returns with its timer spent.  With room in the
\* queue and no shutdown the item is enqueued at the tail.
C11_SendsNeverBlock ==
  /\ [](/\ Len(eventChan) <= TimerBufferSize
        /\ Len(timerChan) <= TimerBufferSize
        /\ pollPc = "offer" =>
             pollBatch # <<>> /\ Offer(eventChan, pollBatch, Done) # {}
        /\ \A t \in DueTimers : TimerSend(timerChan, t, Done) # {})
  /\ [][ /\ PollOffer /\ Len(eventChan) >= TimerBufferSize =>
             /\ eventChan' = eventChan
             /\ ~Done => /\ pollBatch' = Tail(pollBatch)
                         /\ pollPc' = PollLoop(Tail(pollBatch))
                         /\ lastOp'.arg = "dropped"
         /\ PollOffer /\ Len(eventChan) < TimerBufferSize /\ ~Done =>
             /\ eventChan' = Append(eventChan, Head(pollBatch))
             /\ pollBatch' = Tail(pollBatch)
         /\ (PollInitial \/ PollTick) /\ lastOp'.arg # "error" =>
             LET events == lastOp'.event.fetched
             IN /\ Len(eventChan) >= TimerBufferSize =>
                     /\ eventChan' = eventChan
                     /\ ~Done => /\ pollBatch' = Tail(events)
                                 /\ pollPc' = PollLoop(Tail(events))
                                 /\ lastOp'.arg = "dropped"
                /\ Len(eventChan) < TimerBufferSize /\ ~Done =>
                     /\ eventChan' = Append(eventChan, Head(events))
                     /\ pollBatch' = Tail(events)
         /\ TimerFire /\ Len(timerChan) >= TimerBufferSize =>
             /\ timerChan' = timerChan
             /\ lastOp'.arg = "dropped"
             /\ Cardinality(timers') = Cardinality(timers) - 1
         /\ TimerFire /\ Len(timerChan) < TimerBufferSize /\ ~Done =>
             /\ Len(timerChan') = Len(timerChan) + 1
             /\ lastOp'.arg = "sent"
       ]_vars

\* the poll worker dropped an event of a batch at the full ingest queue and
\* has the rest of the batch still to offer
C11_Witness ==
  /\ lastOp.arg = "dropped"
  /\ lastOp.op \in {"performEventPoll", "offer"}
  /\ pollPc = "offer"
  /\ pollBatch # <<>>
  /\ Len(eventChan) = TimerBufferSize

\* ----------------------------------------------------------------- C12
\* the scheduler with a caller that calls GetScheduledEvents() once and
\* keeps the map
SnapshotNext == Next \/ CallGetScheduledEvents

SnapshotSpec == InitTwoEvents /\ [][SnapshotNext]_vars

\* C12: what is seen through a map returned by GetScheduledEvents() stays
\* what the map held when it was returned.
C12_SnapshotIsStable ==
  snapshot # Nil => snapshot.seen = snapshot.returned

\* ======================================= pkg/calendar/coordinator.go
\* A title is the sequence of its words, " " standing for white space at
\* either end; no word of the titles used contains another.
CalendarEvent(id, title, start, calendarName, alarms, description, modifiedAt) ==
  [ID |-> id, Title |-> title, Description |-> description,
   StartTime |-> start, EndTime |-> start + 60, Alarms |-> alarms,
   CalendarID |-> "cal-" \o calendarName, CalendarName |-> calendarName,
   Location |-> "", ModifiedAt |-> modifiedAt, ResponseStatus |-> "accepted"]

\* strings.ToLower on the words and names in use
ToLower(w) ==
  CASE w = "Team" -> "team"
    [] w = "Meeting" -> "meeting"
    [] w = "Weekly" -> "weekly"
    [] w = "Budget" -> "budget"
    [] w = "Review" -> "review"
    [] w = "Exchange" -> "exchange"
    [] w = "Offsite" -> "offsite"
    [] OTHER -> w

LowerTitle(t) == [i \in 1..Len(t) |-> ToLower(t[i])]

RECURSIVE TrimLeft(_)
TrimLeft(t) == IF t # <<>> /\ Head(t) = " " THEN TrimLeft(Tail(t)) ELSE t

Reverse(t) == [i \in 1..Len(t) |-> t[Len(t) + 1 - i]]

\* strings.TrimSpace
TrimSpace(t) == Reverse(TrimLeft(Reverse(TrimLeft(t))))

\* strings.Fields
Fields(t) == SelectSeq(t, LAMBDA w : w # " ")

\* strings.Contains
Contains(a, b) ==
  \E i \in 0..(Len(a) - Len(b)) : SubSeq(a, i + 1, i + Len(b)) = b

\* lines 230-234
Stopwords ==
  {"meeting", "call", "sync", "standup", "the", "a", "an", "and", "or",
   "with", "for", "of", "in", "on"}

\* lines 239, 252: a word that counts toward similarity
Meaningful(w) == Len(w) > 2 /\ w \notin Stopwords

\* lines 207-287
AreTitlesSimilar(a, b) ==
  LET normA == LowerTitle(TrimSpace(a))
      normB == LowerTitle(TrimSpace(b))
      wordsA == Fields(normA)
      wordsB == Fields(normB)
      commonWords ==
        Cardinality({i \in 1..Len(wordsA) :
                       /\ Meaningful(wordsA[i])
                       /\ \E j \in 1..Len(wordsB) : wordsB[j] = wordsA[i]})
      meaningfulWordsA ==
        Cardinality({i \in 1..Len(wordsA) : Meaningful(wordsA[i])})
      meaningfulWordsB ==
        Cardinality({i \in 1..Len(wordsB) : Meaningful(wordsB[i])})
      minMeaningfulWords ==
        IF meaningfulWordsB < meaningfulWordsA
        THEN meaningfulWordsB ELSE meaningfulWordsA
  IN IF Len(a) = 0 \/ Len(b) = 0 THEN FALSE
     ELSE IF normA = normB THEN TRUE
     ELSE IF Contains(normA, normB) \/ Contains(normB, normA) THEN TRUE
     ELSE IF Len(wordsA) = 0 \/ Len(wordsB) = 0 THEN FALSE
     ELSE IF meaningfulWordsA = 0 \/ meaningfulWordsB = 0 THEN FALSE
     ELSE IF commonWords = 0 THEN FALSE
     ELSE 10 * commonWords >= 7 * minMeaningfulWords

Abs(n) == IF n < 0 THEN 0 - n ELSE n

AreEventsSimilar_NoWindow(a, b, cfg) ==
  LET titleA == LowerTitle(TrimSpace(a.Title))
      titleB == LowerTitle(TrimSpace(b.Title))
  IN IF a.ID = b.ID THEN TRUE
     ELSE IF titleA = titleB THEN TRUE
     ELSE AreTitlesSimilar(titleA, titleB)

\* lines 174-204
AreEventsSimilar(a, b, cfg) ==
  LET timeDiff == Abs(a.StartTime - b.StartTime)
      titleA == LowerTitle(TrimSpace(a.Title))
      titleB == LowerTitle(TrimSpace(b.Title))
  IN IF a.ID = b.ID THEN TRUE
     ELSE IF timeDiff > cfg.DeduplicationWindow THEN FALSE
     ELSE IF titleA = titleB THEN TRUE
     ELSE AreTitlesSimilar(titleA, titleB)

\* lines 161-171
FindSimilarEvents(target, allEvents, cfg) ==
  SelectSeq(allEvents, LAMBDA e : AreEventsSimilar(target, e, cfg))

\* the pairs of indexes of s
IndexPairs(s) == (1..Len(s)) \X (1..Len(s))

\* sort.Slice, which is not stable: the orders it can leave s in, every
\* one a permutation of s in which no element is less than one before it;
\* less holds the pairs <<i, j>> for which the comparison says s[i] < s[j]
SortSlice(s, less) ==
  LET n == Len(s)
      orders == {f \in [1..n -> 1..n] :
                   /\ \A i, j \in 1..n : i # j => f[i] # f[j]
                   /\ \A i, j \in 1..n : i < j => <<f[j], f[i]>> \notin less}
  IN {[i \in 1..n |-> s[f[i]]] : f \in orders}

\* the order of Go's < on the calendar names in use
NameOrder == <<"apple", "caldav", "exchange", "google", "outlook">>

StringLess(x, y) ==
  \E i, j \in 1..Len(NameOrder) : NameOrder[i] = x /\ NameOrder[j] = y /\ i < j

\* lines 95-117: the comparison of prioritizeEventsByProvider
PriorityLess(a, b, cfg) ==
  LET providerA == ToLower(a.CalendarName)
      providerB == ToLower(b.CalendarName)
      okA == providerA \in DOMAIN cfg.ProviderPriorities
      okB == providerB \in DOMAIN cfg.ProviderPriorities
  IN IF okA /\ okB
     THEN cfg.ProviderPriorities[providerA] < cfg.ProviderPriorities[providerB]
     ELSE IF okA /\ ~okB THEN TRUE
     ELSE IF ~okA /\ okB THEN FALSE
     ELSE StringLess(providerA, providerB)

PrioritizeEventsByProvider_Unsorted(events, cfg) == {events}

\* lines 94-118
PrioritizeEventsByProvider(events, cfg) ==
  SortSlice(events, {p \in IndexPairs(events) :
                      PriorityLess(events[p[1]], events[p[2]], cfg)})

\* line 332: fmt.Sprintf("%d-%s-%s", ...)
AlarmKey(alarm) ==
  ToString(alarm.LeadTimeMinutes) \o "-" \o alarm.Method \o "-" \o alarm.Severity

RECURSIVE Flatten(_)
Flatten(ss) == IF ss = <<>> THEN <<>> ELSE Head(ss) \o Flatten(Tail(ss))

\* line 343: the comparison of the sort of the merged alarms
LeadTimeGreater(alarms) ==
  {p \in IndexPairs(alarms) :
     alarms[p[1]].LeadTimeMinutes > alarms[p[2]].LeadTimeMinutes}

MergeAlarms_KeepDuplicates(events) ==
  LET all == Flatten([i \in 1..Len(events) |-> events[i].Alarms])
  IN SortSlice(all, LeadTimeGreater(all))

\* lines 328-346: the alarm lists merge_alarms can produce; the map is
\* iterated in no fixed order and then sorted by lead time, descending
MergeAlarms(events) ==
  LET all == Flatten([i \in 1..Len(events) |-> events[i].Alarms])
      keys == {AlarmKey(all[i]) : i \in 1..Len(all)}
      first(k) == CHOOSE i \in 1..Len(all) :
                    /\ AlarmKey(all[i]) = k
                    /\ \A j \in 1..(i - 1) : AlarmKey(all[j]) # k
      alarmMap == [k \in keys |-> all[first(k)]]
      listed == CHOOSE q \in [1..Cardinality(keys) -> keys] :
                  \A k \in keys : \E i \in DOMAIN q : q[i] = k
      alarms == [i \in DOMAIN listed |-> alarmMap[listed[i]]]
  IN SortSlice(alarms, LeadTimeGreater(alarms))

RECURSIVE Join(_, _)
\* strings.Join
Join(ids, sep) ==
  IF ids = <<>> THEN ""
  ELSE IF Len(ids) = 1 THEN ids[1]
  ELSE ids[1] \o sep \o Join(Tail(ids), sep)

\* the first non-empty value of a field, "" if there is none
FirstNonEmpty(values) ==
  LET filled == SelectSeq(values, LAMBDA v : v # "")
  IN IF filled = <<>> THEN "" ELSE filled[1]

Max(ns) == CHOOSE n \in ns : \A m \in ns : m <= n

\* lines 290-375: the events a merge of two or more events can produce.
\* MergedFrom is not a field of models.Event; it records the events merged.
MergeEvents(events, cfg) ==
  LET base == events[1]
      n == Len(events)
      strategy == IF cfg.MergeStrategy = "" THEN "keep_first"
                  ELSE cfg.MergeStrategy
      alarmLists ==
        CASE strategy = "keep_first" -> {base.Alarms}
          [] strategy = "keep_last" -> {events[n].Alarms}
          [] strategy = "merge_alarms" -> MergeAlarms(events)
          [] OTHER -> {base.Alarms}
  IN {[ID |-> "merged-" \o Join([i \in 1..n |-> events[i].ID], "-"),
       Title |-> base.Title,
       Description |-> FirstNonEmpty([i \in 1..n |-> events[i].Description]),
       StartTime |-> base.StartTime,
       EndTime |-> base.EndTime,
       Alarms |-> alarms,
       CalendarID |-> base.CalendarID,
       CalendarName |-> base.CalendarName,
       Location |-> FirstNonEmpty([i \in 1..n |-> events[i].Location]),
       ModifiedAt |-> Max({events[i].ModifiedAt : i \in 1..n}),
       ResponseStatus |-> "",
       MergedFrom |-> events] : alarms \in alarmLists}

RECURSIVE DeduplicateFrom(_, _, _, _, _)
\* lines 129-157: the loop from position i on, with the IDs processed and
\* the list built so far; the lists it can end with
DeduplicateFrom(events, i, processed, deduplicated, cfg) ==
  IF i > Len(events) THEN {deduplicated}
  ELSE
    LET event == events[i]
        similar == FindSimilarEvents(event, events, cfg)
        ids == {similar[k].ID : k \in 1..Len(similar)}
    IN IF event.ID \in processed
       THEN DeduplicateFrom(events, i + 1, processed, deduplicated, cfg)
       ELSE IF Len(similar) = 1
       THEN DeduplicateFrom(events, i + 1, processed \cup {event.ID},
                            Append(deduplicated, event), cfg)
       ELSE UNION {DeduplicateFrom(events, i + 1, processed \cup ids,
                                   Append(deduplicated, merged), cfg) :
                     merged \in MergeEvents(similar, cfg)}

\* lines 121-158
DeduplicateEvents(events, cfg) ==
  IF Len(events) <= 1 THEN {events}
  ELSE DeduplicateFrom(events, 1, {}, <<>>, cfg)

\* lines 23-38
DefaultCoordinatorConfig ==
  [DeduplicationEnabled |-> TRUE,
   DeduplicationWindow |-> DeduplicationWindow,
   ProviderPriorities |-> [p \in {"google", "outlook", "apple"} |->
                             CASE p = "google" -> 1 [] p = "outlook" -> 2
                               [] p = "apple" -> 3],
   MergeStrategy |-> "keep_first"]

\* other configurations a coordinator is constructed with
CaldavFirstConfig ==
  [DefaultCoordinatorConfig EXCEPT
     !.ProviderPriorities = [p \in {"caldav", "outlook"} |->
                               IF p = "caldav" THEN 1 ELSE 2],
     !.MergeStrategy = ""]

MergeAlarmsConfig == [CaldavFirstConfig EXCEPT !.MergeStrategy = "merge_alarms"]

KeepLastConfig == [DefaultCoordinatorConfig EXCEPT !.MergeStrategy = "keep_last"]

NoDeduplicationConfig ==
  [CaldavFirstConfig EXCEPT !.DeduplicationEnabled = FALSE]

CoordinatorConfigs ==
  {DefaultCoordinatorConfig, CaldavFirstConfig, MergeAlarmsConfig,
   KeepLastConfig, NoDeduplicationConfig}

\* the events of the providers' calendars
TeamMeetingCaldav ==
  CalendarEvent("A", <<"Team", "Meeting">>, 60, "caldav",
                <<Alarm(15, "popup", "normal")>>, "", 1)
TeamMeetingOutlook ==
  CalendarEvent("B", <<"team", "meeting", " ">>, 62, "outlook",
                <<Alarm(10, "email", "high"), Alarm(15, "popup", "normal")>>,
                "agenda", 2)
TeamMeetingMoved ==
  CalendarEvent("B", <<"Team", "Meeting">>, 200, "outlook",
                <<Alarm(5, "popup", ""), Alarm(10, "popup", "")>>, "", 3)
BudgetReview ==
  CalendarEvent("C", <<"Budget", "Review">>, 30, "Exchange", <<>>, "", 1)
WeeklyTeamMeeting ==
  CalendarEvent("D", <<"Weekly", "Team", "Meeting">>, 66, "google",
                <<Alarm(15, "email", "normal"), Alarm(10, "email", "high")>>,
                "", 1)

\* titles with a word in common, one of them with the word twice
BudgetTwice ==
  CalendarEvent("E", <<"Budget", "Budget">>, 300, "google", <<>>, "", 1)
BudgetReviewWeekly ==
  CalendarEvent("F", <<"Budget", "Review", "Weekly">>, 302, "outlook", <<>>,
                "", 1)

\* an invitation the user declined, as two providers return it
OffsiteGoogle ==
  [CalendarEvent("G", <<"Offsite">>, 400, "google",
                 <<Alarm(15, "popup", "normal")>>, "", 1)
     EXCEPT !.ResponseStatus = "declined"]
OffsiteOutlook ==
  [CalendarEvent("H", <<"Offsite">>, 400, "outlook",
                 <<Alarm(15, "popup", "normal")>>, "", 1)
     EXCEPT !.ResponseStatus = "declined"]

ProviderEvents ==
  {TeamMeetingCaldav, TeamMeetingOutlook, TeamMeetingMoved, BudgetReview,
   WeeklyTeamMeeting, BudgetTwice, BudgetReviewWeekly, OffsiteGoogle,
   OffsiteOutlook}

\* the slices a caller passes: up to MaxBatch different events, in any order
Slices ==
  UNION {{q \in [1..n -> ProviderEvents] :
            \A i, j \in 1..n : i # j => q[i] # q[j]} : n \in 0..MaxBatch}

StartTimeLess_Descending(s) ==
  {p \in IndexPairs(s) : s[p[1]].StartTime > s[p[2]].StartTime}

\* lines 82-84: the comparison of the final sort
StartTimeLess(s) ==
  {p \in IndexPairs(s) : s[p[1]].StartTime < s[p[2]].StartTime}

\* every variable of the scheduler
scheduler == <<now, config, calendar, lifecycle, wg, tracked, upcomingTimers,
               eventChan, timerChan, workers, history, snapshot, lastOp>>

\* lines 62-91: the call; events is the caller's slice, which the sorts
\* reorder in place
CoordinateEvents ==
  /\ coordinatorConfig # Nil
  /\ coordinated = Nil
  /\ IF Len(callerEvents) = 0
     THEN /\ coordinated' = [events |-> callerEvents, sameSlice |-> TRUE]
          /\ callerEvents' = callerEvents
     ELSE \E events \in PrioritizeEventsByProvider(callerEvents, coordinatorConfig) :
            IF coordinatorConfig.DeduplicationEnabled /\ Len(events) > 1
            THEN \E deduplicated \in DeduplicateEvents(events, coordinatorConfig) :
                 \E coordinatedEvents \in
                      SortSlice(deduplicated, StartTimeLess(deduplicated)) :
                   /\ coordinated' = [events |-> coordinatedEvents,
                                      sameSlice |-> FALSE]
                   /\ callerEvents' = events
            ELSE \E coordinatedEvents \in
                      SortSlice(events, StartTimeLess(events)) :
                   /\ coordinated' = [events |-> coordinatedEvents,
                                      sameSlice |-> TRUE]
                   /\ callerEvents' = coordinatedEvents
  /\ UNCHANGED <<coordinatorConfig, passed, compared, scheduler, retryer,
                 breaker>>

\* a coordinator with its configuration, and a caller with a slice of events
CoordinatorInit ==
  /\ NewEventScheduler
  /\ config = DefaultConfig
  /\ calendar = {Standup}
  /\ coordinatorConfig \in CoordinatorConfigs
  /\ callerEvents \in Slices
  /\ passed = callerEvents
  /\ coordinated = Nil
  /\ compared = Nil
  /\ NoRetryer
  /\ NoBreaker

\* lines 174-204, 207-287: areEventsSimilar is called on two events, and
\* areTitlesSimilar on their titles as areEventsSimilar prepares them, each
\* with the arguments in either order
CallAreEventsSimilar ==
  /\ coordinatorConfig # Nil
  /\ compared = Nil
  /\ \E a, b \in ProviderEvents :
       LET titleA == LowerTitle(TrimSpace(a.Title))
           titleB == LowerTitle(TrimSpace(b.Title))
       IN compared' =
            [a |-> a, b |-> b,
             events |-> <<AreEventsSimilar(a, b, coordinatorConfig),
                          AreEventsSimilar(b, a, coordinatorConfig)>>,
             titles |-> <<AreTitlesSimilar(titleA, titleB),
                          AreTitlesSimilar(titleB, titleA)>>]
  /\ UNCHANGED <<coordinatorConfig, callerEvents, passed, coordinated,
                 scheduler, retryer, breaker>>

CoordinatorNext == CoordinateEvents \/ CallAreEventsSimilar

CoordinatorSpec == CoordinatorInit /\ [][CoordinatorNext]_vars

\* the events an event of the returned list was made of
Members(o) ==
  IF "MergedFrom" \in DOMAIN o
  THEN {o.MergedFrom[k] : k \in 1..Len(o.MergedFrom)}
  ELSE {o}

IsMerge(o) == "MergedFrom" \in DOMAIN o

Deduplicated == coordinated # Nil /\ coordinatorConfig.DeduplicationEnabled

\* ----------------------------------------------------------------- C13
\* C13: with deduplication enabled, two events of the input that share an ID
\* are members of one and the same merged event of the output, and of no
\* other event of the output.
C13_SameIDMergedTogether ==
  Deduplicated =>
    \A i, j \in 1..Len(passed) :
      i < j /\ passed[i].ID = passed[j].ID =>
        \E k \in 1..Len(coordinated.events) :
          /\ IsMerge(coordinated.events[k])
          /\ {passed[i], passed[j]} \subseteq Members(coordinated.events[k])
          /\ \A l \in 1..Len(coordinated.events) :
               l # k => Members(coordinated.events[l]) \cap {passed[i], passed[j]} = {}

\* ----------------------------------------------------------------- C14
\* C14 as stated: no event of the output is a merge with two members whose
\* StartTimes differ by more than DeduplicationWindow.
C14_NoMergeBeyondWindow ==
  coordinated # Nil =>
    \A k \in 1..Len(coordinated.events) :
      \A a, b \in Members(coordinated.events[k]) :
        Abs(a.StartTime - b.StartTime) <= coordinatorConfig.DeduplicationWindow

\* C14 as amended: every merge of the output has a member, the one its
\* group was collected for, such that each member has that member's ID or
\* starts within DeduplicationWindow of it; members with the same ID, and
\* two members on either side of that one, can be further apart.
C14_MembersNearAnchor ==
  coordinated # Nil =>
    \A k \in 1..Len(coordinated.events) :
      IsMerge(coordinated.events[k]) =>
        \E anchor \in Members(coordinated.events[k]) :
          \A m \in Members(coordinated.events[k]) :
            \/ m.ID = anchor.ID
            \/ Abs(m.StartTime - anchor.StartTime)
                 <= coordinatorConfig.DeduplicationWindow

\* a merge of two events with one ID that start further apart than the window
C14_Witness ==
  /\ coordinated # Nil
  /\ \E k \in 1..Len(coordinated.events) :
       /\ IsMerge(coordinated.events[k])
       /\ \E a, b \in Members(coordinated.events[k]) :
            /\ a.ID = b.ID
            /\ Abs(a.StartTime - b.StartTime) > coordinatorConfig.DeduplicationWindow

\* ----------------------------------------------------------------- C15
AlarmSet(alarms) == {alarms[i] : i \in 1..Len(alarms)}

MergesAlarms == coordinated # Nil /\ coordinatorConfig.MergeStrategy = "merge_alarms"

\* C15: under merge_alarms the alarms of a merged event are those of all
\* its members, each (LeadTimeMinutes, Method, Severity) once, in descending
\* order of LeadTimeMinutes.
C15_MergedAlarmsUniqueSorted ==
  MergesAlarms =>
    \A k \in 1..Len(coordinated.events) :
      IsMerge(coordinated.events[k]) =>
        LET alarms == coordinated.events[k].Alarms
        IN /\ AlarmSet(alarms) =
                UNION {AlarmSet(m.Alarms) : m \in Members(coordinated.events[k])}
           /\ \A i, j \in 1..Len(alarms) : i # j => alarms[i] # alarms[j]
           /\ \A i, j \in 1..Len(alarms) :
                i < j => alarms[i].LeadTimeMinutes >= alarms[j].LeadTimeMinutes

\* a merge under merge_alarms of members that have an alarm in common and
\* alarms of different lead times
C15_Witness ==
  /\ MergesAlarms
  /\ \E k \in 1..Len(coordinated.events) :
       /\ IsMerge(coordinated.events[k])
       /\ \E a, b \in Members(coordinated.events[k]) :
            /\ a # b
            /\ AlarmSet(a.Alarms) \cap AlarmSet(b.Alarms) # {}
            /\ AlarmSet(a.Alarms) # AlarmSet(b.Alarms)
       /\ Len(coordinated.events[k].Alarms) >= 2

\* ----------------------------------------------------------------- C16
\* C16: the list CoordinateEvents returns is in ascending order of StartTime,
\* whatever the order of the input and with deduplication on or off.
C16_SortedByStartTime ==
  coordinated # Nil =>
    \A i, j \in 1..Len(coordinated.events) :
      i < j => coordinated.events[i].StartTime <= coordinated.events[j].StartTime

\* the input was not in order of StartTime, and two or more events came back
C16_Witness ==
  /\ coordinated # Nil
  /\ Len(coordinated.events) >= 2
  /\ \E i, j \in 1..Len(passed) : i < j /\ passed[i].StartTime > passed[j].StartTime

\* ----------------------------------------------------------------- C17
\* a's provider has a higher priority than b's: a lower configured rank, or
\* a rank where b's has none
Outranks(a, b, cfg) ==
  LET ranks == cfg.ProviderPriorities
      providerA == ToLower(a.CalendarName)
      providerB == ToLower(b.CalendarName)
  IN /\ providerA \in DOMAIN ranks
     /\ providerB \in DOMAIN ranks => ranks[providerA] < ranks[providerB]

KeepsFirst == coordinatorConfig.MergeStrategy \in {"", "keep_first"}

C18_InputUntouched ==
  coordinated # Nil =>
    /\ callerEvents = passed
    /\ Len(passed) > 0 => ~coordinated.sameSlice


\* ------------------------------------------------------------------------
\* pkg/retry: Retryer.Do and Retryer.DoWithResult
\* ------------------------------------------------------------------------

\* the largest MaxAttempts of a configuration
MaxAttemptsBound == 3

\* the largest attempt number calculateDelay is called with on its own
MaxAttemptNumber == 5

\* time.Second, durations being counted in tenths of a second
Second == 10

\* context.Canceled and context.DeadlineExceeded
ContextCanceled == [kind |-> "context", msg |-> "context canceled"]
ContextDeadlineExceeded ==
  [kind |-> "context", msg |-> "context deadline exceeded"]

\* lines 726-743: an *HTTPError
NewHTTPError(statusCode) == [kind |-> "http", StatusCode |-> statusCode]

\* a net.Error that is not a *url.Error
NetError(temporary, timeout) ==
  [kind |-> "net", Temporary |-> temporary, Timeout |-> timeout]

\* a *url.Error around err
URLError(err) == [kind |-> "url", Err |-> err]

\* errors.New(msg)
PlainError(msg) == [kind |-> "plain", msg |-> msg]

\* lines 498-522: the statuses and phrases of DefaultConfig
DefaultRetriableStatuses == {408, 429, 500, 502, 503, 504}
DefaultRetriableErrors ==
  <<"connection refused", "timeout", "temporary failure",
    "network unreachable", "no such host", "connection reset">>

\* the configurations of a Retryer: DefaultConfig with each MaxAttempts, and
\* the configuration of the tests, which names a status and no phrase
RetryConfigs ==
  { [MaxAttempts |-> n, InitialDelay |-> 1 * Second, MaxDelay |-> 30 * Second,
     BackoffFactor |-> 2, Jitter |-> TRUE,
     RetriableErrors |-> DefaultRetriableErrors,
     RetriableStatuses |-> DefaultRetriableStatuses]
      : n \in 1..MaxAttemptsBound }
  \cup
  { [MaxAttempts |-> n, InitialDelay |-> 1 * Second, MaxDelay |-> 10 * Second,
     BackoffFactor |-> 2, Jitter |-> FALSE,
     RetriableErrors |-> <<"temporary">>,
     RetriableStatuses |-> {503}] : n \in 1..MaxAttemptsBound }

\* the errors an operation returns
OperationErrors ==
  { ContextCanceled, ContextDeadlineExceeded,
    NewHTTPError(503), NewHTTPError(500), NewHTTPError(404),
    NetError(TRUE, FALSE), NetError(FALSE, FALSE),
    URLError(ContextCanceled), URLError(NewHTTPError(503)),
    URLError(PlainError("timeout")), URLError(NetError(FALSE, TRUE)),
    PlainError("timeout"), PlainError("TIMEOUT"),
    PlainError("dial: Connection Refused"),
    PlainError("temporary network error"), PlainError("invalid input") }

\* errors.Is(err, target): err itself, or what a *url.Error unwraps to
ErrorsIs(err, target) ==
  \/ err = target
  \/ err.kind = "url" /\ err.Err = target

\* errors.As(err, &httpErr): the *HTTPError in the chain of err, or Nil
AsHTTPError(err) ==
  IF err.kind = "http" THEN err
  ELSE IF err.kind = "url" /\ err.Err.kind = "http" THEN err.Err
  ELSE Nil

\* errors.As(err, &netErr): the first net.Error in the chain of err, or Nil;
\* a *url.Error is itself a net.Error
AsNetError(err) ==
  IF err.kind \in {"net", "url"} THEN err ELSE Nil

\* Timeout() of a net.Error: a *url.Error asks the error it holds, and
\* context.DeadlineExceeded has a Timeout method that returns true
NetTimeout(e) ==
  IF e.kind = "net" THEN e.Timeout
  ELSE IF e.kind = "url"
    THEN \/ e.Err.kind = "net" /\ e.Err.Timeout
         \/ e.Err = ContextDeadlineExceeded
    ELSE FALSE

\* Temporary() of a net.Error, likewise
NetTemporary(e) ==
  IF e.kind = "net" THEN e.Temporary
  ELSE IF e.kind = "url"
    THEN \/ e.Err.kind = "net" /\ e.Err.Temporary
         \/ e.Err = ContextDeadlineExceeded
    ELSE FALSE

UpperCase == "ABCDEFGHIJKLMNOPQRSTUVWXYZ"
LowerCase == "abcdefghijklmnopqrstuvwxyz"

\* lines 769-774
toLower(b) ==
  IF \E i \in 1..Len(UpperCase) : SubSeq(UpperCase, i, i) = b
    THEN LET i == CHOOSE i \in 1..Len(UpperCase) : SubSeq(UpperCase, i, i) = b
         IN SubSeq(LowerCase, i, i)
    ELSE b

\* lines 753-767
stringContains(s, substr) ==
  \E i \in 0..(Len(s) - Len(substr)) :
    \A j \in 0..(Len(substr) - 1) :
      toLower(SubSeq(s, i + j + 1, i + j + 1))
        = toLower(SubSeq(substr, j + 1, j + 1))

\* lines 746-751
containsIgnoreCase(s, substr) ==
  /\ Len(s) >= Len(substr)
  /\ \/ s = substr
     \/ Len(s) > Len(substr) /\ stringContains(s, substr)

\* lines 714-722: the message of err holds one of the phrases
MatchesPattern(err, cfg) ==
  \E k \in 1..Len(cfg.RetriableErrors) :
    containsIgnoreCase(err.msg, cfg.RetriableErrors[k])

IsRetriable_Always(err, cfg) == err # Nil

\* lines 681-723: isRetriable
IsRetriable(err, cfg) ==
  IF err = Nil THEN FALSE
  ELSE IF \/ ErrorsIs(err, ContextCanceled)
          \/ ErrorsIs(err, ContextDeadlineExceeded) THEN FALSE
  ELSE IF AsHTTPError(err) # Nil
    THEN AsHTTPError(err).StatusCode \in cfg.RetriableStatuses
  ELSE IF AsNetError(err) # Nil
    THEN NetTemporary(AsNetError(err)) \/ NetTimeout(AsNetError(err))
  ELSE MatchesPattern(err, cfg)

RECURSIVE Pow(_, _)
\* math.Pow for a whole base and exponent
Pow(x, n) == IF n = 0 THEN 1 ELSE x * Pow(x, n - 1)

CalculateDelay_Uncapped(attemptNumber, cfg) ==
  LET delay == cfg.InitialDelay * Pow(cfg.BackoffFactor, attemptNumber)
  IN IF cfg.Jitter
       THEN {delay + jitter : jitter \in {j \in 0..delay : 10 * j < delay}}
       ELSE {delay}

\* lines 663-678: the delays calculateDelay can return; rand.Float64() is in
\* [0, 1), so the jitter is any duration below a tenth of the capped delay
CalculateDelay(attemptNumber, cfg) ==
  LET delay == cfg.InitialDelay * Pow(cfg.BackoffFactor, attemptNumber)
      capped == IF delay > cfg.MaxDelay THEN cfg.MaxDelay ELSE delay
  IN IF cfg.Jitter
       THEN {capped + jitter : jitter \in {j \in 0..capped : 10 * j < capped}}
       ELSE {capped}

\* fmt.Errorf(text + ": %w", err)
Errorf(text, err) == [kind |-> "wrap", text |-> text, wraps |-> err]

CancelledError_AsNonRetriable(err) == Errorf("non-retriable error", err)

\* lines 574, 626
CancelledError(err) == Errorf("retry cancelled by context", err)

\* lines 595, 647
NonRetriableError(err) == Errorf("non-retriable error", err)

ExhaustedError_NoCount(n, err) == Errorf("operation failed", err)

\* lines 607, 659
ExhaustedError(n, err) ==
  Errorf("operation failed after " \o ToString(n) \o " attempts", err)

\* what a call returns: Do the error, DoWithResult the result and the error
Return(result, err) ==
  [result |-> IF withResult THEN result ELSE Nil, err |-> err]

\* lines 579-605 (631-657): one pass of the loop from the call of the
\* operation on; the operation returns nil (and "value") or an error
RetryAttempt ==
  /\ retryPc = "loop"
  /\ attempt <= retryConfig.MaxAttempts
  /\ \E err \in OperationErrors \cup {Nil} :
       /\ outcomes' = Append(outcomes, err)
       /\ IF err = Nil
            THEN /\ retryPc' = "returned"
                 /\ retryReturned' = Return("value", Nil)
                 /\ UNCHANGED <<attempt, lastErr, sleeps, calculated>>
          ELSE IF ~IsRetriable(err, retryConfig)
            THEN /\ lastErr' = err
                 /\ retryPc' = "returned"
                 /\ retryReturned' = Return(Nil, NonRetriableError(err))
                 /\ UNCHANGED <<attempt, sleeps, calculated>>
          ELSE IF attempt = retryConfig.MaxAttempts
            THEN /\ lastErr' = err
                 /\ retryPc' = "returned"
                 /\ retryReturned' =
                      Return(Nil, ExhaustedError(retryConfig.MaxAttempts, err))
                 /\ UNCHANGED <<attempt, sleeps, calculated>>
          ELSE /\ lastErr' = err
               /\ attempt' = attempt + 1
               /\ retryPc' = "sleep"
               /\ sleeps' = sleeps + 1
               /\ \E delay \in CalculateDelay(attempt, retryConfig) :
                    calculated' = [attemptNumber |-> attempt, delay |-> delay]
               /\ UNCHANGED retryReturned
  /\ UNCHANGED <<retryConfig, withResult, ctxErr, scheduler, coordinator, breaker>>

\* lines 572-576 (624-628): the delay passes before the context is done
RetrySleepDone ==
  /\ retryPc = "sleep"
  /\ ctxErr = Nil
  /\ retryPc' = "loop"
  /\ UNCHANGED <<retryConfig, withResult, ctxErr, attempt, lastErr, outcomes,
                 sleeps, retryReturned, calculated, scheduler, coordinator, breaker>>

\* lines 572-574 (624-626): the context is done before the delay passes
RetrySleepCancelled ==
  /\ retryPc = "sleep"
  /\ ctxErr # Nil
  /\ retryPc' = "returned"
  /\ retryReturned' = Return(Nil, CancelledError(ctxErr))
  /\ UNCHANGED <<retryConfig, withResult, ctxErr, attempt, lastErr, outcomes,
                 sleeps, calculated, scheduler, coordinator, breaker>>

\* the caller cancels the context, or its deadline passes
CancelContext ==
  /\ retryPc \in {"loop", "sleep"}
  /\ ctxErr = Nil
  /\ ctxErr' \in {ContextCanceled, ContextDeadlineExceeded}
  /\ UNCHANGED <<retryConfig, withResult, retryPc, attempt, lastErr, outcomes,
                 sleeps, retryReturned, calculated, scheduler, coordinator, breaker>>

\* lines 663-678: calculateDelay called on a Retryer that runs no call
CallCalculateDelay ==
  /\ retryPc = "none"
  /\ retryConfig # Nil
  /\ \E attemptNumber \in 1..MaxAttemptNumber :
     \E delay \in CalculateDelay(attemptNumber, retryConfig) :
       calculated' = [attemptNumber |-> attemptNumber, delay |-> delay]
  /\ UNCHANGED <<retryConfig, withResult, ctxErr, retryPc, attempt, lastErr,
                 outcomes, sleeps, retryReturned, scheduler, coordinator, breaker>>

\* lines 544-563 (611-615): a Retryer as constructed, idle or with a call of
\* Do or DoWithResult entering its loop
RetryInit ==
  /\ NewEventScheduler
  /\ config = DefaultConfig
  /\ calendar = {Standup}
  /\ NoCoordinator
  /\ retryConfig \in RetryConfigs
  /\ \/ /\ retryPc = "none"
        /\ withResult = FALSE
        /\ ctxErr = Nil
        /\ attempt = 0
     \/ /\ retryPc = "loop"
        /\ withResult \in BOOLEAN
        /\ ctxErr \in {Nil, ContextCanceled}
        /\ attempt = 1
  /\ lastErr = Nil
  /\ outcomes = <<>>
  /\ sleeps = 0
  /\ retryReturned = Nil
  /\ calculated = Nil
  /\ NoBreaker

RetryNext ==
  \/ CallCalculateDelay
  \/ RetryAttempt
  \/ RetrySleepDone
  \/ RetrySleepCancelled
  \/ CancelContext

RetrySpec == RetryInit /\ [][RetryNext]_vars


\* every attempt so far failed with an error the Retryer classifies retriable
AllRetriable ==
  \A i \in 1..Len(outcomes) : IsRetriable(outcomes[i], retryConfig)

\* C19: the operation is never invoked more than MaxAttempts times; the first
\* nil result ends the call with a nil error; and a call whose every attempt
\* failed with a retriable error, its context never done, returns after
\* exactly MaxAttempts invocations an error that wraps the last error and
\* states the attempt count.
C19_ExactlyMaxAttempts ==
  retryPc # "none" =>
    /\ Len(outcomes) <= retryConfig.MaxAttempts
    /\ \A i \in 1..Len(outcomes) :
         outcomes[i] = Nil =>
           /\ i = Len(outcomes)
           /\ retryPc = "returned"
           /\ retryReturned.err = Nil
           /\ withResult => retryReturned.result = "value"
    /\ (retryPc = "returned" /\ AllRetriable /\ ctxErr = Nil) =>
         /\ Len(outcomes) = retryConfig.MaxAttempts
         /\ retryReturned.result = Nil
         /\ retryReturned.err.wraps = outcomes[Len(outcomes)]
         /\ retryReturned.err.text =
              "operation failed after " \o ToString(retryConfig.MaxAttempts)
                \o " attempts"
    /\ (retryPc # "returned" /\ AllRetriable /\ ctxErr = Nil) =>
         Len(outcomes) < retryConfig.MaxAttempts

\* a call with three attempts ran out of them on retriable errors
C19_Witness ==
  /\ retryPc = "returned"
  /\ ctxErr = Nil
  /\ retryConfig.MaxAttempts = 3
  /\ Len(outcomes) = 3
  /\ AllRetriable
  /\ outcomes[3] = NewHTTPError(503)
  /\ retryReturned.err = ExhaustedError(3, NewHTTPError(503))

\* the errors the classification calls non-retriable: a context error, an
\* HTTP error whose status is not listed, and an error of no class whose
\* message holds none of the phrases, in any case of letters
NonRetriable(err) ==
  /\ err # Nil
  /\ \/ err \in {ContextCanceled, ContextDeadlineExceeded}
     \/ err.kind = "http" /\ err.StatusCode \notin retryConfig.RetriableStatuses
     \/ /\ err.kind = "plain"
        /\ \A k \in 1..Len(retryConfig.RetriableErrors) :
             ~stringContains(err.msg, retryConfig.RetriableErrors[k])

\* C20: an attempt that fails with a non-retriable error is the last one: the
\* call has returned that error wrapped, the operation is not invoked again,
\* and no backoff sleep follows the attempt, whatever attempts remain.
C20_NonRetriableReturnsAtOnce ==
  \A i \in 1..Len(outcomes) :
    NonRetriable(outcomes[i]) =>
      /\ i = Len(outcomes)
      /\ retryPc = "returned"
      /\ retryReturned.result = Nil
      /\ retryReturned.err.text = "non-retriable error"
      /\ retryReturned.err.wraps = outcomes[i]
      /\ sleeps = i - 1

\* a second attempt of three failed with a status that is not listed
C20_Witness ==
  /\ retryPc = "returned"
  /\ retryConfig.MaxAttempts = 3
  /\ Len(outcomes) = 2
  /\ outcomes[2] = NewHTTPError(404)
  /\ sleeps = 1
  /\ retryReturned.err = NonRetriableError(NewHTTPError(404))


\* the texts of the errors a call returns for exhaustion and for an error
\* that is not retriable
OtherTexts ==
  {"non-retriable error"}
    \cup {"operation failed after " \o ToString(n) \o " attempts" :
            n \in 0..(MaxAttemptsBound + 1)}

\* C21: when the context is done while the call sleeps before a retry, the
\* one step the call can take is to return the cancellation error, which
\* wraps ctx.Err() and whose text is neither that of exhaustion nor that of
\* a non-retriable error; the operation is not invoked by that step, nor
\* after the call has returned.
C21_CancelledInBackoff ==
  [][/\ (retryPc = "sleep" /\ ctxErr # Nil) =>
          /\ retryPc' = "returned"
          /\ outcomes' = outcomes
          /\ sleeps' = sleeps
          /\ retryReturned'.result = Nil
          /\ retryReturned'.err.wraps = ctxErr
          /\ retryReturned'.err.text = "retry cancelled by context"
          /\ retryReturned'.err.text \notin OtherTexts
     /\ retryPc = "returned" => outcomes' = outcomes
    ]_vars

\* the deadline of the context passed during the first backoff of a call
C21_Witness ==
  /\ retryPc = "returned"
  /\ retryConfig.MaxAttempts = 3
  /\ Len(outcomes) = 1
  /\ sleeps = 1
  /\ retryReturned.err = CancelledError(ContextDeadlineExceeded)

\* the smaller of two durations
MinDuration(a, b) == IF a < b THEN a ELSE b

\* the delays of the example: 2s, 4s, 8s, 10s, 10s
ExampleDelays ==
  <<2 * Second, 4 * Second, 8 * Second, 10 * Second, 10 * Second>>

\* C22: without jitter calculateDelay(n) is min(InitialDelay *
\* BackoffFactor^n, MaxDelay), which for 1s, 10s and factor 2 gives 2s, 4s,
\* 8s, 10s, 10s for n = 1..5; it never exceeds MaxDelay and does not decrease
\* with n; and the delay of the sleep before attempt k > 1 is
\* calculateDelay(k - 1).
C22_DelayIsCappedBackoff ==
  (retryConfig # Nil /\ calculated # Nil) =>
    LET n == calculated.attemptNumber
        cfg == retryConfig
    IN /\ ~cfg.Jitter =>
            /\ calculated.delay =
                 MinDuration(cfg.InitialDelay * (cfg.BackoffFactor ^ n),
                             cfg.MaxDelay)
            /\ calculated.delay <= cfg.MaxDelay
            /\ \A m \in 1..n :
               \A d \in CalculateDelay(m, cfg) : d <= calculated.delay
            /\ ( /\ cfg.InitialDelay = 1 * Second
                 /\ cfg.MaxDelay = 10 * Second
                 /\ cfg.BackoffFactor = 2
                 /\ n <= Len(ExampleDelays) ) =>
                 calculated.delay = ExampleDelays[n]
       /\ retryPc \in {"sleep", "loop"} =>
            /\ n = attempt - 1
            /\ calculated.delay \in CalculateDelay(attempt - 1, cfg)

\* calculateDelay(4) without jitter, capped at the MaxDelay of ten seconds
C22_Witness ==
  /\ retryConfig # Nil
  /\ calculated # Nil
  /\ ~retryConfig.Jitter
  /\ calculated.attemptNumber = 4
  /\ calculated.delay = 10 * Second


\* ------------------------------------------------------------------------
\* pkg/retry: CircuitBreaker.Execute
\* ------------------------------------------------------------------------

\* the number of Execute calls made on a breaker
MaxExecutes == 7

\* the clock of a breaker runs up to here
BreakerHorizon == 6

\* the configurations of a breaker: the two of the tests and the default
\* one; the clock counts halves of OpenTimeout
BreakerConfigs ==
  { [FailureThreshold |-> 2, OpenTimeout |-> 2, SuccessThreshold |-> 1],
    [FailureThreshold |-> 1, OpenTimeout |-> 2, SuccessThreshold |-> 1],
    [FailureThreshold |-> 5, OpenTimeout |-> 2, SuccessThreshold |-> 2] }

\* errors.New("test error"), the error of a failing operation
OperationFailed == PlainError("test error")

\* line 858
CircuitOpenError == PlainError("circuit breaker is open")

HalfOpens_AtTimeout(cbState, failedAt, t, cfg) ==
  cbState = "open" /\ t - failedAt >= cfg.OpenTimeout

\* line 847: the breaker is open and more than OpenTimeout has passed
HalfOpens(cbState, failedAt, t, cfg) ==
  cbState = "open" /\ t - failedAt > cfg.OpenTimeout

StateAfterFailure_Late(cbState, failed, cfg) ==
  IF cbState = "half-open" THEN "open"
  ELSE IF failed > cfg.FailureThreshold THEN "open"
  ELSE cbState

\* lines 867-875: the state after a failure, failed being the new count
StateAfterFailure(cbState, failed, cfg) ==
  IF cbState = "half-open" THEN "open"
  ELSE IF failed >= cfg.FailureThreshold THEN "open"
  ELSE cbState

StateAfterSuccess_Late(cbState, succeeded, cfg) ==
  IF cbState = "half-open" /\ succeeded > cfg.SuccessThreshold
    THEN "closed"
    ELSE cbState

\* lines 884-888: the state after a success, succeeded being the new count
StateAfterSuccess(cbState, succeeded, cfg) ==
  IF cbState = "half-open" /\ succeeded >= cfg.SuccessThreshold
    THEN "closed"
    ELSE cbState

\* lines 845-889: one call of Execute; the operation returns nil or an error
Execute ==
  /\ breakerConfig # Nil
  /\ Len(executed) < MaxExecutes
  /\ \E err \in {Nil, OperationFailed} :
       LET halfOpens == HalfOpens(state, lastFailure, clock, breakerConfig)
           state1 == IF halfOpens THEN "half-open" ELSE state
           successes1 == IF halfOpens THEN 0 ELSE successes
       IN IF state1 = "open"
            THEN /\ executed' = Append(executed, [invoked |-> FALSE,
                                                  err |-> CircuitOpenError])
                 /\ UNCHANGED <<state, failures, successes, lastFailure>>
          ELSE IF err # Nil
            THEN /\ failures' = failures + 1
                 /\ lastFailure' = clock
                 /\ state' = StateAfterFailure(state1, failures + 1,
                                               breakerConfig)
                 /\ successes' = successes1
                 /\ executed' = Append(executed, [invoked |-> TRUE,
                                                  err |-> err])
          ELSE /\ failures' = 0
               /\ successes' = successes1 + 1
               /\ state' = StateAfterSuccess(state1, successes1 + 1,
                                             breakerConfig)
               /\ UNCHANGED lastFailure
               /\ executed' = Append(executed, [invoked |-> TRUE,
                                                err |-> Nil])
  /\ UNCHANGED <<breakerConfig, clock, scheduler, coordinator, retryer>>

\* time passes between calls
BreakerTick ==
  /\ breakerConfig # Nil
  /\ clock < BreakerHorizon
  /\ clock' = clock + 1
  /\ UNCHANGED <<breakerConfig, state, failures, successes, lastFailure,
                 executed, scheduler, coordinator, retryer>>

\* lines 829-842: NewCircuitBreaker
BreakerInit ==
  /\ NewEventScheduler
  /\ config = DefaultConfig
  /\ calendar = {Standup}
  /\ NoCoordinator
  /\ NoRetryer
  /\ breakerConfig \in BreakerConfigs
  /\ state = "closed"
  /\ failures = 0
  /\ successes = 0
  /\ lastFailure = Nil
  /\ clock = 0
  /\ executed = <<>>

BreakerNext == Execute \/ BreakerTick

BreakerSpec == BreakerInit /\ [][BreakerNext]_vars


\* the call that the step made, if the step is a call of Execute
Called == executed' # executed
LastCall == executed'[Len(executed')]

RECURSIVE TrailingFailures(_)
\* the failed operations at the end of a history of calls
TrailingFailures(h) ==
  IF h = <<>> THEN 0
  ELSE IF h[Len(h)].invoked /\ h[Len(h)].err # Nil
    THEN 1 + TrailingFailures(SubSeq(h, 1, Len(h) - 1))
    ELSE 0

RECURSIVE TrailingSuccesses(_)
\* the successful operations at the end of a history of calls
TrailingSuccesses(h) ==
  IF h = <<>> THEN 0
  ELSE IF h[Len(h)].invoked /\ h[Len(h)].err = Nil
    THEN 1 + TrailingSuccesses(SubSeq(h, 1, Len(h) - 1))
    ELSE 0

\* C23: a call on a closed breaker runs the operation; the breaker opens, with
\* lastFailure stamped, exactly when that makes FailureThreshold failures
\* with no success in between, and a success leaves it closed with the
\* failure count at zero.
C23_OpensAtThreshold ==
  [][(state = "closed" /\ Called) =>
       /\ LastCall.invoked
       /\ (state' = "open") <=>
            (TrailingFailures(executed') = breakerConfig.FailureThreshold)
       /\ state' # "open" => state' = "closed"
       /\ state' = "open" => lastFailure' = clock'
       /\ LastCall.err = Nil => (failures' = 0 /\ state' = "closed")
       /\ LastCall.err # Nil => failures' = TrailingFailures(executed')
    ]_vars

\* with FailureThreshold 2, a failure, a success and two failures: the
\* breaker opened at the last one only
C23_Witness ==
  /\ breakerConfig # Nil
  /\ breakerConfig.FailureThreshold = 2
  /\ Len(executed) = 4
  /\ executed[1].err # Nil /\ executed[2].err = Nil
  /\ executed[3].err # Nil /\ executed[4].err # Nil
  /\ \A i \in 1..4 : executed[i].invoked
  /\ state = "open"
  /\ lastFailure = clock

\* what a call that runs the operation on a breaker that has just turned
\* half-open leaves behind
RanHalfOpen ==
  /\ LastCall.invoked
  /\ IF LastCall.err # Nil
       THEN state' = "open" /\ lastFailure' = clock' /\ successes' = 0
       ELSE /\ successes' = 1
            /\ state' = IF breakerConfig.SuccessThreshold <= 1
                          THEN "closed" ELSE "half-open"

\* a call that is refused
Refused ==
  /\ ~LastCall.invoked
  /\ LastCall.err = CircuitOpenError
  /\ LastCall.err # OperationFailed
  /\ UNCHANGED <<state, failures, successes, lastFailure>>

\* C24 as stated: a call on an open breaker is refused while less than
\* OpenTimeout has passed since lastFailure, and from then on turns the
\* breaker half-open and runs the operation.
C24_OpenUntilTimeout ==
  [][(state = "open" /\ Called) =>
       IF clock - lastFailure < breakerConfig.OpenTimeout
         THEN Refused
         ELSE RanHalfOpen
    ]_vars

\* C24, amended: a call on an open breaker is refused, nothing changing,
\* while no more than OpenTimeout has passed since lastFailure; a call made
\* when more has passed turns the breaker half-open and runs the operation.
C24_OpenThroughTimeout ==
  [][(state = "open" /\ Called) =>
       IF clock - lastFailure <= breakerConfig.OpenTimeout
         THEN Refused
         ELSE RanHalfOpen
    ]_vars

\* a breaker refused a call, and ran the next one after the timeout
C24_Witness ==
  /\ breakerConfig # Nil
  /\ Len(executed) >= 3
  /\ \E i \in 2..(Len(executed) - 1) :
       /\ executed[i - 1].invoked /\ executed[i - 1].err # Nil
       /\ ~executed[i].invoked
       /\ executed[i + 1].invoked

\* C25: a call on a half-open breaker runs the operation; a failure opens the
\* breaker again, and the success that completes SuccessThreshold successes
\* in a row closes it with the failure count and the success count at zero.
C25_HalfOpenClosesAndResets ==
  [][( /\ Called
       /\ \/ state = "half-open"
          \/ state = "open" /\ clock - lastFailure > breakerConfig.OpenTimeout
     ) =>
       /\ LastCall.invoked
       /\ LastCall.err # Nil => state' = "open"
       /\ LastCall.err = Nil =>
            IF TrailingSuccesses(executed') >= breakerConfig.SuccessThreshold
              THEN state' = "closed" /\ failures' = 0 /\ successes' = 0
              ELSE state' = "half-open"
    ]_vars


\* ------------------------------------------------------------------------
\* the scheduler: rescheduling and dispatch
\* ------------------------------------------------------------------------

\* the lead times an event resolves to: its own or the default ones, and
\* the final reminder when none of them is that lead time
ResolvedLeads(e) ==
  LET base == IF e.Alarms # <<>> THEN NativeLeads(e)
              ELSE config.DefaultLeadTimes
      final == config.FinalReminderMinutes
  IN IF final # NoFinalReminder /\ \A i \in 1..Len(base) : base[i] # final
       THEN base \o <<final>> ELSE base

\* the armed timers of an event
ArmedFor(tm, id) == {x \in tm : x.EventID = id}

\* C26: an ingest of an accepted future event that resolves to alarms leaves
\* the event with one PendingNotification, unsent and in alarm order, per
\* alarm whose trigger time is after now, and with the timers of these and
\* no other; and in every state an event has no more armed timers than the
\* alarms it resolves to.
C26_RescheduleReplacesTimers ==
  /\ [][(IngestSchedule /\ IngestTracks /\ ResolvedLeads(ingestEvent) # <<>>) =>
          LET e == ingestEvent
              ns == scheduledEvents'[e.ID].Notifications
              InFuture(lead) == e.StartTime - lead > now
              due == SelectSeq(ResolvedLeads(e), InFuture)
          IN /\ Len(ns) = Len(due)
             /\ \A i \in 1..Len(ns) :
                  /\ ns[i].Notification.Lead = due[i]
                  /\ ns[i].TriggerTime = e.StartTime - due[i]
                  /\ ~ns[i].Sent
             /\ {x.id : x \in ArmedFor(timers', e.ID)} = TimerIDs(ns)
             /\ Cardinality(ArmedFor(timers', e.ID)) = Len(ns)
             /\ \A x \in ArmedFor(timers', e.ID) :
                  \E i \in 1..Len(ns) : /\ x.id = ns[i].Timer
                                        /\ x.deadline = ns[i].TriggerTime
                                        /\ x.Notification = ns[i].Notification
       ]_vars
  /\ [](\A id \in DOMAIN scheduledEvents :
          Cardinality(ArmedFor(timers, id))
            <= Len(ResolvedLeads(scheduledEvents[id].Event)))

\* C27: an ingest of an event that resolves to no alarm changes neither the
\* PendingNotifications of any event nor the armed timers.
C27_NoAlarmsLeavesTimers ==
  [][(IngestSchedule /\ ResolvedLeads(ingestEvent) = <<>>) =>
       /\ timers' = timers
       /\ \A id \in DOMAIN scheduledEvents :
            /\ id \in DOMAIN scheduledEvents'
            /\ scheduledEvents'[id].Notifications
                 = scheduledEvents[id].Notifications
       /\ \A id \in DOMAIN scheduledEvents' \ DOMAIN scheduledEvents :
            scheduledEvents'[id].Notifications = <<>>
    ]_vars

\* the event that had an alarm came back without one, and its timer and
\* its PendingNotification are still there
C27_Witness ==
  /\ lastOp.op = "scheduleEventNotifications"
  /\ lastOp.event = SyncMoved
  /\ config = NativeOnlyConfig
  /\ "e2" \in DOMAIN scheduledEvents
  /\ scheduledEvents["e2"].Event = SyncMoved
  /\ Len(scheduledEvents["e2"].Notifications) = 1
  /\ ArmedFor(timers, "e2") # {}

\* C28: every PendingNotification of a tracked event has the trigger time
\* StartTime - Lead of the event as tracked, and its Notification has that
\* event's StartTime and Title.
C28_NotificationsMatchSnapshot ==
  \A id \in DOMAIN scheduledEvents :
    LET e == scheduledEvents[id].Event
        ns == scheduledEvents[id].Notifications
    IN \A i \in 1..Len(ns) :
         /\ ns[i].TriggerTime = e.StartTime - ns[i].Notification.Lead
         /\ ns[i].Notification.When = e.StartTime
         /\ ns[i].Notification.Title = e.Title

\* C29: when the dispatch worker has published a fire-event and comes to
\* mark it, the event is tracked and afterwards holds, marked sent, the
\* PendingNotification with the Notification that was published.
C29_PublishedIsMarkedSent ==
  [][DispatchAck =>
       /\ dispatchEvt.EventID \in DOMAIN scheduledEvents'
       /\ \E i \in 1..Len(scheduledEvents'[dispatchEvt.EventID].Notifications) :
            LET pending == scheduledEvents'[dispatchEvt.EventID].Notifications[i]
            IN /\ pending.Notification.ptr = dispatchEvt.Notification.ptr
               /\ pending.Sent
    ]_vars

\* C30: when the Publisher returns an error the dispatch worker is back at
\* its select with nothing in hand: the fire-event is gone from the queue
\* and is not put back, no PendingNotification is marked or changed, no
\* timer is armed, and nothing is recorded as published.
C30_FailedPublishIsDropped ==
  [][(DispatchPublish /\ published' = published) =>
       /\ timerChan' = Tail(timerChan)
       /\ dispatchPc' = "select"
       /\ dispatchEvt' = Nil
       /\ scheduledEvents' = scheduledEvents
       /\ timers' = timers
       /\ lastOp' = Op("handleTimerEvent", "error")
    ]_vars

\* a publish failed: the PendingNotification is due, unsent, without a
\* timer, and the worker waits for the next fire-event
C30_Witness ==
  /\ lastOp = Op("handleTimerEvent", "error")
  /\ dispatchPc = "select"
  /\ dispatchEvt = Nil
  /\ published = EmptyBag
  /\ \E id \in DOMAIN scheduledEvents :
     \E i \in 1..Len(scheduledEvents[id].Notifications) :
       LET pending == scheduledEvents[id].Notifications[i]
       IN /\ ~pending.Sent
          /\ pending.TriggerTime <= now
          /\ pending.Timer \notin ArmedHandles


\* ------------------------------------------------------------------------
\* the initial poll
\* ------------------------------------------------------------------------

\* C31: when Start() has returned nil GetAllEvents has been called, and the
\* first call of GetAllEvents after a Start() is the initial poll, not one
\* a tick led to.
C31_PolledWhenStartReturns ==
  /\ lastOp = Op("Start", "nil") => polls # <<>>
  /\ polls # <<>> => polls[1] = "initial"

\* C31, amended: the poll worker that Start() launches polls before it enters
\* its loop: the first call of GetAllEvents after a Start() is the initial
\* poll, every poll a tick leads to comes after it, and no second initial
\* poll follows.
C31_InitialPollComesFirst ==
  /\ polls # <<>> => polls[1] = "initial"
  /\ \A i \in 2..Len(polls) : polls[i] = "tick"
  /\ pollPc \in {"offer", "select"} => polls # <<>>

\* the initial poll and then a poll on a tick
C31_Witness ==
  /\ polls = <<"initial", "tick">>
  /\ running


\* ------------------------------------------------------------------------
\* the coordinator: groups
\* ------------------------------------------------------------------------

\* the events of the output an event of the input is a member of
OutputsOf(e) ==
  {k \in 1..Len(coordinated.events) : e \in Members(coordinated.events[k])}

\* the events of the input have different IDs
DistinctIDs == \A i, j \in 1..Len(passed) : i # j => passed[i].ID # passed[j].ID

\* C32: with deduplication enabled every event of the input is a member of
\* exactly one event of the output, and the output has no more events than
\* the input; stated for inputs whose events have different IDs.
C32_DeduplicationPartitions ==
  Deduplicated /\ DistinctIDs =>
    /\ \A i \in 1..Len(passed) : Cardinality(OutputsOf(passed[i])) = 1
    /\ Len(coordinated.events) <= Len(passed)


\* C38: areTitlesSimilar returns the same for two titles in either order,
\* and so does areEventsSimilar for two events.
C38_SimilarityIsSymmetric ==
  compared # Nil =>
    /\ compared.titles[1] = compared.titles[2]
    /\ compared.events[1] = compared.events[2]


\* what the scheduler, tracking nothing, tracks after the ingest of e
IngestAlone(e) ==
  ScheduleEventNotifications(<<>>, {}, e, 0, DefaultConfig, {})

\* C34: an event of the output merged from events none of which is accepted
\* is not accepted either, and its ingest by the scheduler tracks no event
\* and arms no timer.
C34_MergeKeepsDeclined ==
  Deduplicated =>
    \A k \in 1..Len(coordinated.events) :
      LET o == coordinated.events[k]
      IN (IsMerge(o) /\ \A m \in Members(o) : ~IsAccepted(m)) =>
           /\ ~IsAccepted(o)
           /\ IngestAlone(o).scheduledEvents = <<>>
           /\ IngestAlone(o).timers = {}


\* ------------------------------------------------------------------------
\* the Retryer: phrases, and configurations without attempts
\* ------------------------------------------------------------------------

RECURSIVE FoldCase(_)
\* a string with its upper-case letters turned to lower case
FoldCase(s) ==
  IF s = "" THEN ""
  ELSE (IF \E i \in 1..Len(UpperCase) : SubSeq(UpperCase, i, i) = SubSeq(s, 1, 1)
        THEN LET i == CHOOSE i \in 1..Len(UpperCase) :
                        SubSeq(UpperCase, i, i) = SubSeq(s, 1, 1)
             IN SubSeq(LowerCase, i, i)
        ELSE SubSeq(s, 1, 1)) \o FoldCase(SubSeq(s, 2, Len(s)))

\* the text holds the phrase, letters compared without regard to case
HoldsPhrase(text, phrase) ==
  \E i \in 0..(Len(text) - Len(phrase)) :
    SubSeq(FoldCase(text), i + 1, i + Len(phrase)) = FoldCase(phrase)

\* the call ended on attempt i with the error classified non-retriable
EndedNonRetriable(i) ==
  /\ i = Len(outcomes)
  /\ retryPc = "returned"
  /\ retryReturned.err # Nil
  /\ retryReturned.err.text = "non-retriable error"

\* C33: an error of the operation that is no context, HTTP or transport
\* error is treated as retriable exactly when its text holds one of the
\* configured phrases, in any case of letters.
C33_PhraseDecidesPlainErrors ==
  \A i \in 1..Len(outcomes) :
    (outcomes[i] # Nil /\ outcomes[i].kind = "plain") =>
      ((\E k \in 1..Len(retryConfig.RetriableErrors) :
          HoldsPhrase(outcomes[i].msg, retryConfig.RetriableErrors[k]))
        <=> ~EndedNonRetriable(i))


\* a Config whose MaxAttempts was left at the zero value, or set below it
ZeroAttemptConfigs ==
  { [MaxAttempts |-> n, InitialDelay |-> 1 * Second, MaxDelay |-> 30 * Second,
     BackoffFactor |-> 2, Jitter |-> TRUE,
     RetriableErrors |-> DefaultRetriableErrors,
     RetriableStatuses |-> DefaultRetriableStatuses] : n \in {-1, 0} }

\* lines 563, 607 (615, 659): the loop condition fails and the call returns
\* what follows the loop
RetryLoopEnd ==
  /\ retryPc = "loop"
  /\ attempt > retryConfig.MaxAttempts
  /\ retryPc' = "returned"
  /\ retryReturned' = Return(Nil, ExhaustedError(retryConfig.MaxAttempts, lastErr))
  /\ UNCHANGED <<retryConfig, withResult, ctxErr, attempt, lastErr, outcomes,
                 sleeps, calculated, scheduler, coordinator, breaker>>

\* a Retryer constructed with any Config, idle or with a call of Do or
\* DoWithResult entering its loop
AnyConfigRetryInit ==
  /\ NewEventScheduler
  /\ config = DefaultConfig
  /\ calendar = {Standup}
  /\ NoCoordinator
  /\ retryConfig \in RetryConfigs \cup ZeroAttemptConfigs
  /\ \/ /\ retryPc = "none"
        /\ withResult = FALSE
        /\ ctxErr = Nil
        /\ attempt = 0
     \/ /\ retryPc = "loop"
        /\ withResult \in BOOLEAN
        /\ ctxErr \in {Nil, ContextCanceled}
        /\ attempt = 1
  /\ lastErr = Nil
  /\ outcomes = <<>>
  /\ sleeps = 0
  /\ retryReturned = Nil
  /\ calculated = Nil
  /\ NoBreaker

AnyConfigRetryNext == RetryNext \/ RetryLoopEnd

AnyConfigRetrySpec == AnyConfigRetryInit /\ [][AnyConfigRetryNext]_vars

\* C40: a call of Do or DoWithResult that has returned has invoked the
\* operation at least once, and an error it returned wraps an error the
\* operation returned or the error of the context.
C40_InvokedAndWrapsRealError ==
  retryPc = "returned" =>
    /\ Len(outcomes) >= 1
    /\ retryReturned.err # Nil =>
         /\ retryReturned.err.wraps # Nil
         /\ \/ \E i \in 1..Len(outcomes) : retryReturned.err.wraps = outcomes[i]
            \/ retryReturned.err.wraps = ctxErr


\* ------------------------------------------------------------------------
\* the circuit breaker: counters
\* ------------------------------------------------------------------------

\* C39: between calls of Execute a Closed breaker has counted fewer failures
\* than FailureThreshold, and a HalfOpen breaker fewer successes than
\* SuccessThreshold.
C39_CountersBelowThresholds ==
  breakerConfig # Nil =>
    /\ state = "closed" => failures < breakerConfig.FailureThreshold
    /\ state = "half-open" => successes < breakerConfig.SuccessThreshold

\* a breaker that opened at its threshold and, tried again, stays HalfOpen
\* after a success, one short of closing
C39_Witness ==
  /\ breakerConfig # Nil
  /\ state = "half-open"
  /\ successes = breakerConfig.SuccessThreshold - 1
  /\ successes > 0
  /\ failures = 0
  /\ executed # <<>>
  /\ executed[Len(executed)] = [invoked |-> TRUE, err |-> Nil]


\* ------------------------------------------------------------------------
\* the scheduler: restart, declined and superseded events
\* ------------------------------------------------------------------------

\* C37: whatever Start() and Stop() calls were made, no call has panicked,
\* and while the scheduler is running, its last Start() having returned nil,
\* the poll, ingest and dispatch workers are all alive.
C37_RestartIsSafe ==
  /\ ~panicked
  /\ running => /\ pollPc # "none"
                /\ ingestPc # "none"
                /\ dispatchPc # "none"


\* the dispatch worker hands the fire-event at the head of the queue to the
\* Publisher, which accepts it
Publishes == DispatchPublish /\ published' # published

\* C36: a notification the Publisher accepts is one of an event that is
\* tracked, and either its PendingNotification is still among the event's
\* Notifications or the event has since been rescheduled without a change of
\* its StartTime.
C36_NoSupersededPublish ==
  [][Publishes =>
       LET evt == Head(timerChan)
       IN /\ evt.EventID \in DOMAIN scheduledEvents
          /\ \/ \E i \in 1..Len(scheduledEvents[evt.EventID].Notifications) :
                  scheduledEvents[evt.EventID].Notifications[i].Notification.ptr
                    = evt.Notification.ptr
             \/ scheduledEvents[evt.EventID].Event.StartTime
                  = evt.Notification.When
    ]_vars


\* C35: once an event with armed timers has been ingested with a
\* non-accepted status, and not since with an accepted one, the Publisher
\* is handed no notification of that event.
C35_NoPublishAfterDecline ==
  [][Publishes => Head(timerChan).EventID \notin declined]_vars

====
